---- MODULE Spec2Model ----
(***************************************************************************)
(* Tag/attribute tree of export_svg_280.py (Spacer, TAT_Node, ...) and the  *)
(* SVG components built on it (SVG_Element, ..., SVG_Document):            *)
(* validation, tree construction, export and indentation-aware rendering.  *)
(*                                                                         *)
(* A Python string is a sequence of one-character strings.  A Python value *)
(* is a record [t, s, n]: t is the name of its runtime type, s its text    *)
(* when it is a str, n its number when it is an int or a bool, and the     *)
(* number of tenths when it is a float (n = 4 is 0.4).                     *)
(***************************************************************************)
EXTENDS Integers, Sequences, FiniteSets, TLC

VARIABLES heap, last, arg, default_spacer, spacers, svg, props

vars == <<heap, last, arg, default_spacer, spacers, svg, props>>

(***************************************************************************)
(* Bounds                                                                  *)
(***************************************************************************)
MaxNameLen == 5
MaxTextLen == 4
MaxEnts == 3
MaxEdges == 2
MaxTreeAttrs == 1
MaxAttrs == 2
MaxLevel == 1
MaxIndent == 2

(***************************************************************************)
(* Python values                                                           *)
(***************************************************************************)
VStr(s) == [t |-> "str", s |-> s, n |-> 0]
VInt(n) == [t |-> "int", s |-> <<>>, n |-> n]
VFloat(tenths) == [t |-> "float", s |-> <<>>, n |-> tenths]
VBool(b) == [t |-> "bool", s |-> <<>>, n |-> IF b THEN 1 ELSE 0]
VNone == [t |-> "NoneType", s |-> <<>>, n |-> 0]
VDict == [t |-> "dict", s |-> <<>>, n |-> 0]

Digit(d) == <<"0", "1", "2", "3", "4", "5", "6", "7", "8", "9">>[d + 1]

RECURSIVE NatToStr(_)
NatToStr(n) == IF n < 10 THEN <<Digit(n)>> ELSE NatToStr(n \div 10) \o <<Digit(n % 10)>>

IntToStr(n) == IF n < 0 THEN <<"-">> \o NatToStr(-n) ELSE NatToStr(n)

FloatToStr(tenths) ==
    LET a == IF tenths < 0 THEN -tenths ELSE tenths
    IN  (IF tenths < 0 THEN <<"-">> ELSE <<>>) \o NatToStr(a \div 10) \o <<".">> \o <<Digit(a % 10)>>

\* str(value), as an f-string field formats it
PyStr(v) ==
    CASE v.t = "str" -> v.s
      [] v.t = "int" -> IntToStr(v.n)
      [] v.t = "float" -> FloatToStr(v.n)
      [] v.t = "bool" -> IF v.n = 1 THEN <<"T", "r", "u", "e">> ELSE <<"F", "a", "l", "s", "e">>
      [] v.t = "NoneType" -> <<"N", "o", "n", "e">>
      [] v.t = "dict" -> <<"{", "}">>

(***************************************************************************)
(* Spacer                                                                  *)
(***************************************************************************)
Spacer(level, indent_size) == [level |-> level, indent_size |-> indent_size]

RECURSIVE Spaces(_)
Spaces(k) == IF k <= 0 THEN <<>> ELSE <<" ">> \o Spaces(k - 1)

\* mutant: "\t" * (self._level * self._indent_size)
Spacer__str__Tabs(self) == [i \in 1..Len(Spaces(self.level * self.indent_size)) |-> "\t"]

\* mutant: " " * self._level
Spacer__str__LevelOnly(self) == Spaces(self.level)

Spacer__str__(self) == Spaces(self.level * self.indent_size)

\* mutant: self._level += diff; return self
Spacer__add__InPlace(self, diff) ==
    [ret |-> Spacer(self.level + diff, self.indent_size),
     self |-> Spacer(self.level + diff, self.indent_size)]

\* mutant: return Spacer(self._level + diff), the indent size left to its
\* default of 1
Spacer__add__UnitLost(self, diff) ==
    [ret |-> Spacer(self.level + diff, 1), self |-> self]

\* mutant: the level is not raised
Spacer__add__SameLevel(self, diff) ==
    [ret |-> Spacer(self.level, self.indent_size), self |-> self]

\* [ret: the Spacer returned, self: the receiver after the call]
Spacer__add__(self, diff) ==
    [ret |-> Spacer(self.level + diff, self.indent_size), self |-> self]

(***************************************************************************)
(* TAT_Defaults and validate_value                                         *)
(***************************************************************************)
Letters ==
    {"a", "b", "c", "d", "e", "f", "g", "h", "i", "j", "k", "l", "m",
     "n", "o", "p", "q", "r", "s", "t", "u", "v", "w", "x", "y", "z",
     "A", "B", "C", "D", "E", "F", "G", "H", "I", "J", "K", "L", "M",
     "N", "O", "P", "Q", "R", "S", "T", "U", "V", "W", "X", "Y", "Z"}

Digits == {"0", "1", "2", "3", "4", "5", "6", "7", "8", "9"}

\* [_A-Za-z][_\-A-Za-z0-9]*
NameSegment(s) ==
    /\ Len(s) >= 1
    /\ s[1] \in Letters \cup {"_"}
    /\ \A i \in 2..Len(s) : s[i] \in Letters \cup Digits \cup {"_", "-"}

\* re.fullmatch(r"([_A-Za-z][_\-A-Za-z0-9]*)(:[_A-Za-z][_\-A-Za-z0-9]*)?", s)
name_pattern(s) ==
    \/ NameSegment(s)
    \/ \E i \in 1..Len(s) :
          /\ s[i] = ":"
          /\ NameSegment(SubSeq(s, 1, i - 1))
          /\ NameSegment(SubSeq(s, i + 1, Len(s)))

\* mutant: r"[^\"\<\>]+", which the empty string does not match
attr_value_pattern_NonEmpty(s) ==
    Len(s) >= 1 /\ \A i \in 1..Len(s) : s[i] \notin {"\"", "<", ">"}

\* re.fullmatch(r"[^\"\<\>]*", s)
attr_value_pattern(s) == \A i \in 1..Len(s) : s[i] \notin {"\"", "<", ">"}

\* mutant: r"(?!--).+", which looks for "--" at the start only
comment_pattern_StartOnly(s) ==
    /\ Len(s) >= 1
    /\ ~(Len(s) >= 2 /\ s[1] = "-" /\ s[2] = "-")
    /\ \A i \in 1..Len(s) : s[i] # "\n"

\* re.fullmatch(r"((?!--).)+", s): every character is consumed by ".", which
\* does not match a newline, at a position where "--" does not start
comment_pattern(s) ==
    /\ Len(s) >= 1
    /\ \A i \in 1..Len(s) :
          /\ ~(s[i] = "-" /\ i + 1 <= Len(s) /\ s[i + 1] = "-")
          /\ s[i] # "\n"

FullMatch(str_pattern, s) ==
    CASE str_pattern = "name_pattern" -> name_pattern(s)
      [] str_pattern = "attr_value_pattern" -> attr_value_pattern(s)
      [] str_pattern = "comment_pattern" -> comment_pattern(s)

\* mutant: the pattern is not looked at
validate_value_TypesOnly(value, str_pattern, valid_types) ==
    IF valid_types # {} /\ value.t \notin valid_types THEN "TypeError" ELSE "ok"

\* str_pattern = "None" is the default str_pattern=None; valid_types = {} is
\* the default valid_types=[].  The outcome is "ok" or the exception raised.
validate_value(value, str_pattern, valid_types) ==
    IF valid_types # {} /\ value.t \notin valid_types
    THEN "TypeError"
    ELSE IF str_pattern # "None" /\ value.t = "str" /\ ~FullMatch(str_pattern, value.s)
         THEN "ValueError"
         ELSE "ok"

(***************************************************************************)
(* Entities.  heap[i] is the object with identity i; a constructor that    *)
(* raises leaves no object.                                                *)
(***************************************************************************)
TAT_Entity__init__(raw_content) ==
    [cls |-> "TAT_Entity", raw_content |-> raw_content, name |-> <<>>,
     children |-> <<>>, attributes |-> <<>>, content |-> VNone]

\* [heap, status, ret]: ret is the identity of the new object
TAT_Entity_new(h, raw_content) ==
    [heap |-> Append(h, TAT_Entity__init__(raw_content)), status |-> "ok", ret |-> Len(h) + 1]

TAT_Node__init__(h, name) ==
    LET st == validate_value(name, "name_pattern", {"str"})
    IN  IF st # "ok"
        THEN [heap |-> h, status |-> st, ret |-> 0]
        ELSE [heap |-> Append(h, [TAT_Entity__init__(VStr(<<>>)) EXCEPT
                                     !.cls = "TAT_Node", !.name = name.s]),
              status |-> "ok", ret |-> Len(h) + 1]

TAT_Comment__init__(h, content) ==
    LET st == validate_value(content, "comment_pattern", {"str", "int", "float"})
    IN  IF st # "ok"
        THEN [heap |-> h, status |-> st, ret |-> 0]
        ELSE [heap |-> Append(h, [TAT_Entity__init__(VStr(<<>>)) EXCEPT
                                     !.cls = "TAT_Comment", !.content = content]),
              status |-> "ok", ret |-> Len(h) + 1]

(***************************************************************************)
(* format_string                                                           *)
(***************************************************************************)
RECURSIVE Join(_, _)
Join(sep, strs) ==
    IF Len(strs) = 0 THEN <<>>
    ELSE IF Len(strs) = 1 THEN strs[1]
    ELSE strs[1] \o sep \o Join(sep, Tail(strs))

\* f'{n}="{v}"'
FormatAttribute(a) == a.k \o <<"=", "\"">> \o PyStr(a.v) \o <<"\"">>

\* mutant: the " " + in front of the joined pairs forgotten
FormatAttributes_NoLeadingSpace(attributes) ==
    Join(<<" ">>, [i \in 1..Len(attributes) |-> FormatAttribute(attributes[i])])

FormatAttributes(attributes) ==
    IF Len(attributes) # 0
    THEN <<" ">> \o Join(<<" ">>, [i \in 1..Len(attributes) |-> FormatAttribute(attributes[i])])
    ELSE <<>>

\* TAT_Entity.format_string: f"{spacer}{self._raw_content}"
TAT_Entity_format_string(self, spacer) ==
    Spacer__str__(spacer) \o PyStr(self.raw_content)

\* mutant: f"{spacer}<!--{self._content}-->"
TAT_Comment_format_string_NoBlanks(self, spacer) ==
    Spacer__str__(spacer) \o <<"<", "!", "-", "-">> \o PyStr(self.content) \o <<"-", "-", ">">>

\* TAT_Comment.format_string: f"{spacer}<!-- {self._content} -->"
TAT_Comment_format_string(self, spacer) ==
    Spacer__str__(spacer) \o <<"<", "!", "-", "-", " ">> \o PyStr(self.content)
        \o <<" ", "-", "-", ">">>

\* TAT_Node.format_string, given the texts of the children
TAT_Node_format_string(self, spacer, children_strs) ==
    LET formated_attributes == FormatAttributes(self.attributes)
    IN  IF Len(self.children) = 0
        THEN Spacer__str__(spacer) \o <<"<">> \o self.name \o formated_attributes
                \o <<" ", "/", ">">>
        ELSE Join(<<"\n">>,
                  <<Spacer__str__(spacer) \o <<"<">> \o self.name \o formated_attributes
                       \o <<">">>>>
                  \o children_strs
                  \o <<Spacer__str__(spacer) \o <<"<", "/">> \o self.name \o <<">">>>>)

\* c.format_string(spacer) by the class of the object: [str: the text
\* returned, spacer: the spacer object after the call].  formated_children is
\* the list comprehension, which evaluates spacer + 1 once per child, in child
\* order; the opening and closing lines are formatted after it.
RECURSIVE format_string(_, _, _)
RECURSIVE formated_children(_, _, _)
formated_children(h, children, spacer) ==
    IF Len(children) = 0
    THEN [strs |-> <<>>, spacer |-> spacer]
    ELSE LET a == Spacer__add__(spacer, 1)
             c == format_string(h, children[1], a.ret)
             rest == formated_children(h, Tail(children), a.self)
         IN  [strs |-> <<c.str>> \o rest.strs, spacer |-> rest.spacer]

format_string(h, id, spacer) ==
    LET self == h[id]
    IN  CASE self.cls = "TAT_Entity" ->
               [str |-> TAT_Entity_format_string(self, spacer), spacer |-> spacer]
          [] self.cls = "TAT_Comment" ->
               [str |-> TAT_Comment_format_string(self, spacer), spacer |-> spacer]
          [] self.cls = "TAT_Node" ->
               LET fc == formated_children(h, self.children, spacer)
               IN  [str |-> TAT_Node_format_string(self, fc.spacer, fc.strs),
                    spacer |-> fc.spacer]

\* The entities format_string visits from a set of entities
RECURSIVE Reach(_, _, _)
Reach(h, S, fuel) ==
    LET T == S \cup UNION {{h[x].children[i] : i \in 1..Len(h[x].children)} : x \in S}
    IN  IF fuel = 0 \/ T = S THEN T ELSE Reach(h, T, fuel - 1)

Descendants(h, id) ==
    Reach(h, {h[id].children[i] : i \in 1..Len(h[id].children)}, Len(h))

\* format_string never returns on a tree that contains one of its own nodes
\* again: Python ends the recursion with RecursionError
Unbounded(h, id) == \E x \in Reach(h, {id}, Len(h)) : x \in Descendants(h, x)

(***************************************************************************)
(* add_nodes                                                               *)
(***************************************************************************)
\* An argument of add_nodes: an entity (by identity), a list of arguments,
\* None, a tuple of arguments, or an object of any other type (a str, a
\* wrapper)
TagEntity(id) == [k |-> "entity", id |-> id, items |-> <<>>]
TagList(items) == [k |-> "list", id |-> 0, items |-> items]
TagNone == [k |-> "None", id |-> 0, items |-> <<>>]
TagOther == [k |-> "other", id |-> 0, items |-> <<>>]
TagTuple(items) == [k |-> "tuple", id |-> 0, items |-> items]

\* mutant: a list is flattened one level only, so a list inside a list is
\* taken for an object of another type
add_nodes_loop_OneLevel(children, tags) ==
    LET RECURSIVE Flat(_, _)
        Flat(ch, ts) ==
            IF Len(ts) = 0 THEN [children |-> ch, status |-> "ok"]
            ELSE CASE ts[1].k = "entity" -> Flat(Append(ch, ts[1].id), Tail(ts))
                   [] ts[1].k = "None" -> Flat(ch, Tail(ts))
                   [] OTHER -> [children |-> ch, status |-> "TypeError"]
        RECURSIVE Top(_, _)
        Top(ch, ts) ==
            IF Len(ts) = 0 THEN [children |-> ch, status |-> "ok"]
            ELSE CASE ts[1].k = "entity" -> Top(Append(ch, ts[1].id), Tail(ts))
                   [] ts[1].k = "list" ->
                        LET r == Flat(ch, ts[1].items)
                        IN  IF r.status # "ok" THEN r ELSE Top(r.children, Tail(ts))
                   [] ts[1].k = "None" -> Top(ch, Tail(ts))
                   [] OTHER -> [children |-> ch, status |-> "TypeError"]
    IN  Top(children, tags)

\* mutant: elif isinstance(tag, (list, tuple)), so a tuple is walked as a
\* list is
RECURSIVE add_nodes_loop_AnySequence(_, _)
add_nodes_loop_AnySequence(children, tags) ==
    IF Len(tags) = 0
    THEN [children |-> children, status |-> "ok"]
    ELSE LET tag == tags[1]
         IN  CASE tag.k = "entity" ->
                    add_nodes_loop_AnySequence(Append(children, tag.id), Tail(tags))
               [] tag.k \in {"list", "tuple"} ->
                    LET r == add_nodes_loop_AnySequence(children, tag.items)
                    IN  IF r.status # "ok" THEN r
                        ELSE add_nodes_loop_AnySequence(r.children, Tail(tags))
               [] tag.k = "None" ->
                    add_nodes_loop_AnySequence(children, Tail(tags))
               [] OTHER ->
                    [children |-> children, status |-> "TypeError"]

\* The loop over tags on the child list: [children, status].  An exception
\* ends the loop and keeps what was appended before it.
RECURSIVE add_nodes_loop(_, _)
add_nodes_loop(children, tags) ==
    IF Len(tags) = 0
    THEN [children |-> children, status |-> "ok"]
    ELSE LET tag == tags[1]
         IN  CASE tag.k = "entity" ->
                    add_nodes_loop(Append(children, tag.id), Tail(tags))
               [] tag.k = "list" ->
                    LET r == add_nodes_loop(children, tag.items)
                    IN  IF r.status # "ok" THEN r
                        ELSE add_nodes_loop(r.children, Tail(tags))
               [] tag.k = "None" ->
                    add_nodes_loop(children, Tail(tags))
               [] OTHER ->
                    [children |-> children, status |-> "TypeError"]

\* mutant: the entities are collected first and appended when all arguments
\* were accepted
add_nodes_AllOrNothing(h, id, tags) ==
    LET r == add_nodes_loop(h[id].children, tags)
    IN  [heap |-> IF r.status = "ok" THEN [h EXCEPT ![id].children = r.children] ELSE h,
         status |-> r.status,
         ret |-> IF r.status = "ok" THEN id ELSE 0]

\* [heap, status, ret]: ret is the object returned (self)
add_nodes(h, id, tags) ==
    LET r == add_nodes_loop(h[id].children, tags)
    IN  [heap |-> [h EXCEPT ![id].children = r.children],
         status |-> r.status,
         ret |-> IF r.status = "ok" THEN id ELSE 0]

(***************************************************************************)
(* add_attrs                                                               *)
(***************************************************************************)
\* A dict is a sequence of items [k, v] with distinct keys, in key order
Item(k, v) == [k |-> k, v |-> v]
DictArg(items) == [t |-> "dict", items |-> items]
NoneArg == [t |-> "NoneType", items |-> <<>>]
ListArg == [t |-> "list", items |-> <<>>]

\* mutant: the pair is appended whether or not the name is there already
DictSet_AppendAlways(d, name, value) == Append(d, Item(name, value))

\* mutant: a name that is written again moves behind the other names
DictSet_MoveToEnd(d, name, value) ==
    Append(SelectSeq(d, LAMBDA e : e.k # name), Item(name, value))

\* self._attributes[name] = value
DictSet(d, name, value) ==
    IF \E i \in 1..Len(d) : d[i].k = name
    THEN [i \in 1..Len(d) |-> IF d[i].k = name THEN Item(name, value) ELSE d[i]]
    ELSE Append(d, Item(name, value))

\* The call add_attrs(..., **attrs) itself: Python raises TypeError before
\* the body runs when a keyword is not a str or names the parameter self
BindKeywords(attrs) ==
    IF \E i \in 1..Len(attrs) : attrs[i].k.t # "str" THEN "TypeError"
    ELSE IF \E i \in 1..Len(attrs) : attrs[i].k.s = <<"s", "e", "l", "f">> THEN "TypeError"
    ELSE "ok"

\* for name, value in attrs.items(): [attributes, status]
RECURSIVE add_attrs_items(_, _)
add_attrs_items(attributes, attrs) ==
    IF Len(attrs) = 0
    THEN [attributes |-> attributes, status |-> "ok"]
    ELSE LET name == attrs[1].k
             value == attrs[1].v
             sn == validate_value(name, "name_pattern", {"str"})
             sv == validate_value(value, "attr_value_pattern", {"str", "int", "float"})
         IN  IF sn # "ok" THEN [attributes |-> attributes, status |-> sn]
             ELSE IF sv # "ok" THEN [attributes |-> attributes, status |-> sv]
             ELSE add_attrs_items(DictSet(attributes, name.s, value), Tail(attrs))

\* self.add_attrs(**d): the inner call has no dicts
add_attrs_kw(attributes, attrs) ==
    IF BindKeywords(attrs) # "ok"
    THEN [attributes |-> attributes, status |-> BindKeywords(attrs)]
    ELSE add_attrs_items(attributes, attrs)

\* for d in dicts: [attributes, status]
RECURSIVE add_attrs_dicts(_, _)
add_attrs_dicts(attributes, dicts) ==
    IF Len(dicts) = 0
    THEN [attributes |-> attributes, status |-> "ok"]
    ELSE LET d == dicts[1]
         IN  IF d.t = "NoneType" THEN add_attrs_dicts(attributes, Tail(dicts))
             ELSE IF validate_value(d, "None", {"dict"}) # "ok"
             THEN [attributes |-> attributes, status |-> validate_value(d, "None", {"dict"})]
             ELSE LET r == add_attrs_kw(attributes, d.items)
                  IN  IF r.status # "ok" THEN r
                      ELSE add_attrs_dicts(r.attributes, Tail(dicts))

\* mutant: the loop over attrs.items() placed before the loop over dicts
add_attrs_KeywordsFirst(h, id, dicts, attrs) ==
    LET b == BindKeywords(attrs)
        a == add_attrs_items(h[id].attributes, attrs)
        d == add_attrs_dicts(a.attributes, dicts)
        r == IF b # "ok" THEN [attributes |-> h[id].attributes, status |-> b]
             ELSE IF a.status # "ok" THEN a
             ELSE d
    IN  [heap |-> [h EXCEPT ![id].attributes = r.attributes],
         status |-> r.status,
         ret |-> IF r.status = "ok" THEN id ELSE 0]

\* [heap, status, ret]
add_attrs(h, id, dicts, attrs) ==
    LET b == BindKeywords(attrs)
        d == add_attrs_dicts(h[id].attributes, dicts)
        a == add_attrs_items(d.attributes, attrs)
        r == IF b # "ok" THEN [attributes |-> h[id].attributes, status |-> b]
             ELSE IF d.status # "ok" THEN d
             ELSE a
    IN  [heap |-> [h EXCEPT ![id].attributes = r.attributes],
         status |-> r.status,
         ret |-> IF r.status = "ok" THEN id ELSE 0]

(***************************************************************************)
(* SVG components.  A wrapper is a record; its properties field is the     *)
(* identity of a dict object (the dict itself is in p, a sequence of dict  *)
(* objects), its components are identities of wrappers (in w) and its      *)
(* raw_content is the identity of an entity (in h).  A dict object is a    *)
(* sequence of items [k, v] whose keys are Python values.                  *)
(***************************************************************************)
\* The identity in the heap of the TAT_Entity() that is the default argument
\* raw_content of SVG_Entity.__init__, made once when the function is defined
DefaultRawContent == 1

SVG_Entity__init__(raw_content) ==
    [cls |-> "SVG_Entity", raw_content |-> raw_content, name |-> VNone,
     properties |-> 0, text |-> VNone, components |-> <<>>]

SVG_Element__init__(name, properties) ==
    [SVG_Entity__init__(DefaultRawContent) EXCEPT
        !.cls = "SVG_Element", !.name = name, !.properties = properties]

SVG_Text__init__(text, properties) ==
    [SVG_Element__init__(VStr(<<"t", "e", "x", "t">>), properties) EXCEPT
        !.cls = "SVG_Text", !.text = text]

SVG_Group__init__(properties, name) ==
    [SVG_Element__init__(name, properties) EXCEPT !.cls = "SVG_Group", !.components = <<>>]

\* The dict display of SVG_Document.__init__, width and height formatted by
\* the f-strings f"{width}px" and f"{height}px"
Px(value) == VStr(PyStr(value) \o <<"p", "x">>)

\* mutant: the width and the height are stored as they are given
SVG_Document_properties_NoUnit(width, height) ==
    <<Item(VStr(<<"x", "m", "l", "n", "s">>),
           VStr(<<"h", "t", "t", "p", ":", "/", "/", "w", "w", "w", ".", "w", "3",
           ".", "o", "r", "g", "/", "2", "0", "0", "0", "/", "s",
           "v", "g">>)),
      Item(VStr(<<"x", "m", "l", "n", "s", ":", "i", "n", "k", "s", "c", "a", "p", "e">>),
           VStr(<<"h", "t", "t", "p", ":", "/", "/", "w", "w", "w", ".", "i", "n",
           "k", "s", "c", "a", "p", "e", ".", "o", "r", "g", "/",
           "n", "a", "m", "e", "s", "p", "a", "c", "e", "s", "/",
           "i", "n", "k", "s", "c", "a", "p", "e">>)),
      Item(VStr(<<"x", "m", "l", "n", "s", ":", "x", "l", "i", "n", "k">>),
           VStr(<<"h", "t", "t", "p", ":", "/", "/", "w", "w", "w", ".", "w", "3",
           ".", "o", "r", "g", "/", "1", "9", "9", "9", "/", "x",
           "l", "i", "n", "k">>)),
      Item(VStr(<<"w", "i", "d", "t", "h">>), width),
      Item(VStr(<<"h", "e", "i", "g", "h", "t">>), height)>>

SVG_Document_properties(width, height) ==
    <<Item(VStr(<<"x", "m", "l", "n", "s">>),
           VStr(<<"h", "t", "t", "p", ":", "/", "/", "w", "w", "w", ".", "w", "3",
           ".", "o", "r", "g", "/", "2", "0", "0", "0", "/", "s",
           "v", "g">>)),
      Item(VStr(<<"x", "m", "l", "n", "s", ":", "i", "n", "k", "s", "c", "a", "p", "e">>),
           VStr(<<"h", "t", "t", "p", ":", "/", "/", "w", "w", "w", ".", "i", "n",
           "k", "s", "c", "a", "p", "e", ".", "o", "r", "g", "/",
           "n", "a", "m", "e", "s", "p", "a", "c", "e", "s", "/",
           "i", "n", "k", "s", "c", "a", "p", "e">>)),
      Item(VStr(<<"x", "m", "l", "n", "s", ":", "x", "l", "i", "n", "k">>),
           VStr(<<"h", "t", "t", "p", ":", "/", "/", "w", "w", "w", ".", "w", "3",
           ".", "o", "r", "g", "/", "1", "9", "9", "9", "/", "x",
           "l", "i", "n", "k">>)),
      Item(VStr(<<"w", "i", "d", "t", "h">>), Px(width)),
      Item(VStr(<<"h", "e", "i", "g", "h", "t">>), Px(height))>>

\* SVG_Document.__init__, properties being the identity of the dict that the
\* dict display made
SVG_Document__init__(properties) ==
    [SVG_Group__init__(properties, VStr(<<"s", "v", "g">>)) EXCEPT
        !.cls = "SVG_Document", !.components = <<>>]

\* self._properties[name] = value
PropSet(d, name, value) ==
    IF \E i \in 1..Len(d) : d[i].k = name
    THEN [i \in 1..Len(d) |-> IF d[i].k = name THEN Item(name, value) ELSE d[i]]
    ELSE Append(d, Item(name, value))

\* for name, value in properties.items(): self._properties[name] = value
RECURSIVE set_props_items(_, _)
set_props_items(d, properties) ==
    IF Len(properties) = 0 THEN d
    ELSE set_props_items(PropSet(d, properties[1].k, properties[1].v), Tail(properties))

\* self.set_props(**d): [properties, status].  Python raises TypeError when d
\* is not a mapping, when a key is not a str and when a key is "self".
set_props_kw(d, arg_d) ==
    IF arg_d.t # "dict" THEN [properties |-> d, status |-> "TypeError"]
    ELSE IF BindKeywords(arg_d.items) # "ok"
    THEN [properties |-> d, status |-> BindKeywords(arg_d.items)]
    ELSE [properties |-> set_props_items(d, arg_d.items), status |-> "ok"]

\* for d in dicts: [properties, status]
RECURSIVE set_props_dicts(_, _)
set_props_dicts(d, dicts) ==
    IF Len(dicts) = 0
    THEN [properties |-> d, status |-> "ok"]
    ELSE IF dicts[1].t = "NoneType" THEN set_props_dicts(d, Tail(dicts))
    ELSE LET r == set_props_kw(d, dicts[1])
         IN  IF r.status # "ok" THEN r ELSE set_props_dicts(r.properties, Tail(dicts))

\* w[self].set_props(*dicts, **properties): [props, status, ret]
set_props(p, w, self, dicts, properties) ==
    LET own == w[self].properties
        b == BindKeywords(properties)
        d == set_props_dicts(p[own], dicts)
        r == IF b # "ok" THEN [properties |-> p[own], status |-> b]
             ELSE IF d.status # "ok" THEN d
             ELSE [properties |-> set_props_items(d.properties, properties), status |-> "ok"]
    IN  [props |-> [p EXCEPT ![own] = r.properties],
         status |-> r.status,
         ret |-> IF r.status = "ok" THEN self ELSE 0]

\* mutant: the return self forgotten, so add returns None
SVG_Group_add_ReturnsNone(w, self, entity) ==
    [svg |-> [w EXCEPT ![self].components = Append(@, entity)], status |-> "ok", ret |-> 0]

\* mutant: self._components = [entity]
SVG_Group_add_Replace(w, self, entity) ==
    [svg |-> [w EXCEPT ![self].components = <<entity>>], status |-> "ok", ret |-> self]

\* w[self].add(entity): [svg, status, ret]
SVG_Group_add(w, self, entity) ==
    [svg |-> [w EXCEPT ![self].components = Append(@, entity)], status |-> "ok", ret |-> self]

\* SVG_Entity.export: [heap, status, ret]
SVG_Entity_export(h, self) == [heap |-> h, status |-> "ok", ret |-> self.raw_content]

\* The outcome r of a chain of calls that started on heap h: a call that
\* raises returns no object, and what the calls before it made is dropped
OrRaise(h, r) == IF r.status # "ok" THEN [heap |-> h, status |-> r.status, ret |-> 0] ELSE r

\* mutant: the properties are not given to the node
SVG_Element_export_add_attrs_NoProperties(p, self, n) == n

\* .add_attrs(self._properties) on the outcome n of TAT_Node(self._name)
SVG_Element_export_add_attrs(p, self, n) ==
    IF n.status # "ok" THEN n
    ELSE add_attrs(n.heap, n.ret, <<DictArg(p[self.properties])>>, <<>>)

\* SVG_Element.export: TAT_Node(self._name).add_attrs(self._properties)
SVG_Element_export(h, p, self) ==
    OrRaise(h, SVG_Element_export_add_attrs(p, self, TAT_Node__init__(h, self.name)))

\* .add_nodes(t) on the node id, t being the outcome of making the child
add_child(id, t) ==
    IF t.status # "ok" THEN t ELSE add_nodes(t.heap, id, <<TagEntity(t.ret)>>)

\* mutant: the text is validated and added as a comment
SVG_Text_export_AsComment(self, e) ==
    IF e.status # "ok" THEN e
    ELSE add_child(e.ret, TAT_Comment__init__(e.heap, self.text))

\* SVG_Text.export: super().export().add_nodes(TAT_Entity(self._text)), e
\* being the outcome of super().export()
SVG_Text_export(self, e) ==
    IF e.status # "ok" THEN e
    ELSE add_child(e.ret, TAT_Entity_new(e.heap, self.text))

\* mutant: the exports are added last component first
SVG_Group_add_nodes_Reversed(id, cs) ==
    IF cs.status # "ok" THEN [heap |-> cs.heap, status |-> cs.status, ret |-> 0]
    ELSE add_nodes(cs.heap, id,
                   <<TagList([i \in 1..Len(cs.rets) |->
                                 TagEntity(cs.rets[Len(cs.rets) + 1 - i])])>>)

\* .add_nodes([...]) of SVG_Group.export on the node id, cs being the outcome
\* [heap, status, rets] of exporting the components
SVG_Group_add_nodes(id, cs) ==
    IF cs.status # "ok" THEN [heap |-> cs.heap, status |-> cs.status, ret |-> 0]
    ELSE add_nodes(cs.heap, id, <<TagList([i \in 1..Len(cs.rets) |-> TagEntity(cs.rets[i])])>>)

\* w[self].export() by the class of the wrapper.  SVG_Group.export is
\* super().export().add_nodes([c.export() for c in self._components]): the
\* node of the group is made first, then the components are exported in
\* component order.
export_cons(ret, rest) ==
    [heap |-> rest.heap, status |-> rest.status, rets |-> <<ret>> \o rest.rets]

RECURSIVE export(_, _, _, _)
RECURSIVE export_components(_, _, _, _)
RECURSIVE export_rest(_, _, _, _)
RECURSIVE SVG_Group_export(_, _, _, _)

\* the components after the first, c being the outcome of exporting the first
export_rest(p, w, components, c) ==
    IF c.status # "ok" THEN [heap |-> c.heap, status |-> c.status, rets |-> <<>>]
    ELSE export_cons(c.ret, export_components(c.heap, p, w, Tail(components)))

export_components(h, p, w, components) ==
    IF Len(components) = 0
    THEN [heap |-> h, status |-> "ok", rets |-> <<>>]
    ELSE export_rest(p, w, components, export(h, p, w, components[1]))

\* n is the outcome of super().export()
SVG_Group_export(p, w, self, n) ==
    IF n.status # "ok" THEN n
    ELSE SVG_Group_add_nodes(n.ret, export_components(n.heap, p, w, self.components))

export(h, p, w, self) ==
    OrRaise(h,
        CASE w[self].cls = "SVG_Entity" -> SVG_Entity_export(h, w[self])
          [] w[self].cls = "SVG_Text" -> SVG_Text_export(w[self], SVG_Element_export(h, p, w[self]))
          [] w[self].cls \in {"SVG_Group", "SVG_Document"} ->
               SVG_Group_export(p, w, w[self], SVG_Element_export(h, p, w[self]))
          [] OTHER -> SVG_Element_export(h, p, w[self]))

\* The wrappers export visits from a set of wrappers
RECURSIVE ReachSvg(_, _, _)
ReachSvg(w, S, fuel) ==
    LET T == S \cup UNION {{w[x].components[i] : i \in 1..Len(w[x].components)} : x \in S}
    IN  IF fuel = 0 \/ T = S THEN T ELSE ReachSvg(w, T, fuel - 1)

\* export never returns on a group that contains itself: Python ends the
\* recursion with RecursionError
UnboundedSvg(w, self) ==
    \E x \in ReachSvg(w, {self}, Len(w)) :
       x \in ReachSvg(w, {w[x].components[i] : i \in 1..Len(w[x].components)}, Len(w))

(***************************************************************************)
(* State.  last records the most recent call: the operation, its receiver, *)
(* the outcome ("ok" or the exception), the object returned (ret) and, for *)
(* format_string, the spacer given, the text returned (out) and whether    *)
(* the call before it was the same format_string call (again).             *)
(* default_spacer[cls] is the Spacer object that is the default argument   *)
(* of cls.format_string, made once when the function is defined.           *)
(***************************************************************************)
NoSpacer == [default |-> FALSE, level |-> 0, indent_size |-> 0]

Call(op, target, status, ret) ==
    [op |-> op, target |-> target, status |-> status, ret |-> ret,
     spacer |-> NoSpacer, out |-> <<>>, again |-> FALSE]

DefaultSpacers ==
    [cls \in {"TAT_Entity", "TAT_Node", "TAT_Comment"} |-> Spacer(0, 1)]

\* props[i] is the dict object with identity i.  The first three are the
\* default arguments properties={} of SVG_Element.__init__, SVG_Text.__init__
\* and SVG_Group.__init__, each made once when its function is defined.
DefaultProps == <<<<>>, <<>>, <<>>>>

\* TAT_Node(name)
NewNode(name) ==
    /\ LET r == TAT_Node__init__(heap, name)
       IN  /\ heap' = r.heap
           /\ last' = Call("TAT_Node", 0, r.status, r.ret)
    /\ UNCHANGED <<arg, default_spacer, spacers, svg, props>>

\* TAT_Comment(content)
NewComment(content) ==
    /\ LET r == TAT_Comment__init__(heap, content)
       IN  /\ heap' = r.heap
           /\ last' = Call("TAT_Comment", 0, r.status, r.ret)
    /\ UNCHANGED <<arg, default_spacer, spacers, svg, props>>

\* TAT_Entity(raw_content)
NewEntity(raw_content) ==
    /\ LET r == TAT_Entity_new(heap, raw_content)
       IN  /\ heap' = r.heap
           /\ last' = Call("TAT_Entity", 0, r.status, r.ret)
    /\ UNCHANGED <<arg, default_spacer, spacers, svg, props>>

TotalEdges(h) == LET RECURSIVE Sum(_)
                     Sum(i) == IF i = 0 THEN 0 ELSE Len(h[i].children) + Sum(i - 1)
                 IN  Sum(Len(h))

TotalAttrs(h) == LET RECURSIVE Sum(_)
                     Sum(i) == IF i = 0 THEN 0 ELSE Len(h[i].attributes) + Sum(i - 1)
                 IN  Sum(Len(h))

IsNode(h, id) == id \in DOMAIN h /\ h[id].cls = "TAT_Node"

\* heap[id].add_nodes(*tags)
AddNodes(id, tags) ==
    /\ IsNode(heap, id)
    /\ LET r == add_nodes(heap, id, tags)
       IN  /\ heap' = r.heap
           /\ last' = Call("add_nodes", id, r.status, r.ret)
    /\ UNCHANGED <<arg, default_spacer, spacers, svg, props>>

\* heap[id].add_attrs(*dicts, **attrs)
AddAttrs(id, dicts, attrs) ==
    /\ IsNode(heap, id)
    /\ LET r == add_attrs(heap, id, dicts, attrs)
       IN  /\ heap' = r.heap
           /\ last' = Call("add_attrs", id, r.status, r.ret)
    /\ UNCHANGED <<arg, default_spacer, spacers, svg, props>>

\* heap[id].format_string(spacer), or heap[id].format_string() / str(heap[id])
\* when sp.default
Render(id, sp) ==
    /\ id \in DOMAIN heap
    /\ LET cls == heap[id].cls
           spacer == IF sp.default THEN default_spacer[cls]
                     ELSE Spacer(sp.level, sp.indent_size)
           again == /\ last.op = "format_string"
                    /\ last.status = "ok"
                    /\ last.target = id
                    /\ last.spacer = sp
       IN  IF Unbounded(heap, id)
           THEN /\ last' = [Call("format_string", id, "RecursionError", 0) EXCEPT
                               !.spacer = sp]
                /\ UNCHANGED default_spacer
           ELSE LET r == format_string(heap, id, spacer)
                IN  /\ last' = [Call("format_string", id, "ok", 0) EXCEPT
                                    !.spacer = sp, !.out = r.str, !.again = again]
                    /\ default_spacer' =
                          IF sp.default THEN [default_spacer EXCEPT ![cls] = r.spacer]
                          ELSE default_spacer
    /\ UNCHANGED <<heap, arg, spacers, svg, props>>

(***************************************************************************)
(* Spec: trees built from small sets of names, contents and arguments      *)
(***************************************************************************)
S(str) == VStr(str)

\* What the k-th constructor call is given.  Heaps that differ only in the
\* order in which their entities were made are explored once.
NodeNameInputs(k) ==
    (IF k = 1 THEN {S(<<"r">>)} ELSE IF k = 2 THEN {S(<<"n", ":", "i">>)} ELSE {S(<<"r">>)})
    \cup {S(<<"2">>), VInt(1)}
CommentInputs(k) == (IF k <= 2 THEN {} ELSE {S(<<"c">>)}) \cup {S(<<"-", "-">>), VNone}
RawInputs(k) == IF k <= 2 THEN {} ELSE {S(<<"t">>)}

SpacerArgs ==
    {[default |-> TRUE, level |-> 0, indent_size |-> 0]}
    \cup {[default |-> FALSE, level |-> l, indent_size |-> u] :
             l \in 0..MaxLevel, u \in {0, MaxIndent}}

\* add_nodes argument lists over the entities a and b
TagArgs(a, b) ==
    LET A == TagEntity(a)
        B == TagEntity(b)
    IN  {<<A>>, <<A, B>>, <<TagList(<<A, B>>)>>, <<TagList(<<A, TagList(<<B>>)>>)>>,
         <<TagNone>>, <<A, TagNone, B>>, <<TagList(<<>>)>>,
         <<TagOther>>, <<A, TagOther, B>>, <<TagList(<<A, TagOther>>), B>>}

TagCalls(h) == UNION {TagArgs(a, b) : a \in DOMAIN h, b \in DOMAIN h}

\* add_attrs calls: [dicts, attrs]
TreeAttrCalls ==
    {[dicts |-> <<>>, attrs |-> <<Item(S(<<"x">>), S(<<"v">>))>>],
     [dicts |-> <<DictArg(<<Item(S(<<"y">>), VInt(-3))>>)>>, attrs |-> <<>>],
     [dicts |-> <<>>, attrs |-> <<Item(S(<<"x">>), S(<<"<">>))>>]}

NoArg == [v |-> VNone, role |-> "none"]

Init ==
    /\ heap = <<>>
    /\ last = Call("init", 0, "ok", 0)
    /\ arg = NoArg
    /\ default_spacer = DefaultSpacers
    /\ spacers = <<>>
    /\ svg = <<>>
    /\ props = DefaultProps

Next ==
    \/ \E name \in NodeNameInputs(Len(heap) + 1) : Len(heap) < MaxEnts /\ NewNode(name)
    \/ \E content \in CommentInputs(Len(heap) + 1) : Len(heap) < MaxEnts /\ NewComment(content)
    \/ \E raw \in RawInputs(Len(heap) + 1) : Len(heap) < MaxEnts /\ NewEntity(raw)
    \/ \E id \in DOMAIN heap : \E tags \in TagCalls(heap) :
          AddNodes(id, tags) /\ TotalEdges(heap') <= MaxEdges
    \/ \E id \in DOMAIN heap : \E c \in TreeAttrCalls :
          AddAttrs(id, c.dicts, c.attrs) /\ TotalAttrs(heap') <= MaxTreeAttrs
    \/ \E id \in DOMAIN heap : \E sp \in SpacerArgs : Render(id, sp)

Spec == Init /\ [][Next]_vars

(***************************************************************************)
(* SpecAttrs: one node, any sequence of add_attrs calls and renderings     *)
(***************************************************************************)
AttrNodeNames == {S(<<"e">>), S(<<"n", ":", "i">>), S(<<"_", "-">>)}

AttrKeyInputs ==
    {S(<<"x">>), S(<<"y", ":", "z">>), S(<<"w">>), S(<<"2">>), S(<<"s", "e", "l", "f">>), VInt(1)}
AttrValueInputs == {S(<<"v">>), S(<<>>), VInt(-3), VFloat(5), S(<<"<">>), VNone}
AttrItems == {Item(k, v) : k \in AttrKeyInputs, v \in AttrValueInputs}
AttrPairs ==
    {<<Item(S(<<"x">>), S(<<"v">>)), Item(k, w)>> :
        k \in AttrKeyInputs \ {S(<<"x">>)}, w \in {VInt(-3), S(<<"<">>)}}

\* add_attrs calls: [dicts, attrs]
AttrCalls ==
    {[dicts |-> <<>>, attrs |-> <<i>>] : i \in AttrItems}
    \cup {[dicts |-> <<>>, attrs |-> p] : p \in AttrPairs}
    \cup {[dicts |-> <<DictArg(p)>>, attrs |-> <<>>] : p \in AttrPairs}
    \cup {[dicts |-> <<DictArg(<<p[2]>>)>>, attrs |-> <<p[1]>>] : p \in AttrPairs}
    \cup {[dicts |-> <<DictArg(<<p[1]>>), NoneArg, DictArg(<<p[2]>>)>>, attrs |-> <<>>] :
             p \in AttrPairs}
    \cup {[dicts |-> <<DictArg(<<Item(S(<<"x">>), S(<<"v">>))>>),
                       DictArg(<<Item(S(<<"x">>), VInt(-3))>>)>>,
            attrs |-> <<>>],
          [dicts |-> <<DictArg(<<Item(S(<<"x">>), S(<<"v">>))>>)>>,
            attrs |-> <<Item(S(<<"x">>), VFloat(5))>>],
          [dicts |-> <<NoneArg>>, attrs |-> <<>>],
          [dicts |-> <<ListArg>>, attrs |-> <<Item(S(<<"x">>), S(<<"v">>))>>],
          [dicts |-> <<>>, attrs |-> <<>>]}

InitAttrs ==
    /\ \E name \in AttrNodeNames : heap = TAT_Node__init__(<<>>, name).heap
    /\ last = Call("init", 0, "ok", 0)
    /\ arg = NoArg
    /\ default_spacer = DefaultSpacers
    /\ spacers = <<>>
    /\ svg = <<>>
    /\ props = DefaultProps

NextAttrs ==
    \/ \E c \in AttrCalls : AddAttrs(1, c.dicts, c.attrs) /\ TotalAttrs(heap') <= MaxAttrs
    \/ \E sp \in SpacerArgs : Render(1, sp)

SpecAttrs == InitAttrs /\ [][NextAttrs]_vars

(***************************************************************************)
(* SpecValidate: one value, drawn from all short strings over two small    *)
(* alphabets and from values of other types, given to one constructor or   *)
(* to add_attrs of the node "e" as arg.role says; the object made is then  *)
(* added to the node and rendered.                                         *)
(***************************************************************************)
NameAlphabet == {"a", "2", "_", "-", ":"}
TextAlphabet == {"a", "-", "\"", "<", ">", "\n"}

StrsUpTo(alphabet, n) == UNION {[1..k -> alphabet] : k \in 0..n}

NameStrings == {S(s) : s \in StrsUpTo(NameAlphabet, MaxNameLen) \cup {<<"s", "e", "l", "f">>}}
TextStrings == {S(s) : s \in StrsUpTo(TextAlphabet, MaxTextLen)}
NonStrings ==
    {VInt(0), VInt(-12), VInt(305), VFloat(4), VFloat(-25), VFloat(20), VBool(TRUE), VNone, VDict}

NameRoles == {"node_name", "attr_name", "dict_key"}
TextRoles == {"attr_value", "comment"}

ValidateArgs ==
    {[v |-> v, role |-> r] : v \in NameStrings \cup NonStrings, r \in NameRoles}
    \cup {[v |-> v, role |-> r] : v \in TextStrings \cup NonStrings, r \in TextRoles}

ValidateSpacers ==
    {[default |-> TRUE, level |-> 0, indent_size |-> 0],
     [default |-> FALSE, level |-> 1, indent_size |-> 2]}

InitValidate ==
    /\ heap = TAT_Node__init__(<<>>, S(<<"e">>)).heap
    /\ last = Call("init", 0, "ok", 0)
    /\ arg \in ValidateArgs
    /\ default_spacer = DefaultSpacers
    /\ spacers = <<>>
    /\ svg = <<>>
    /\ props = DefaultProps

NextValidate ==
    \/ last.op = "init" /\ arg.role = "node_name" /\ NewNode(arg.v)
    \/ last.op = "init" /\ arg.role = "comment" /\ NewComment(arg.v)
    \/ last.op = "init" /\ arg.role = "attr_name"
          /\ AddAttrs(1, <<>>, <<Item(arg.v, S(<<"v">>))>>)
    \/ last.op = "init" /\ arg.role = "dict_key"
          /\ AddAttrs(1, <<DictArg(<<Item(arg.v, S(<<"v">>))>>)>>, <<>>)
    \/ last.op = "init" /\ arg.role = "attr_value"
          /\ AddAttrs(1, <<>>, <<Item(S(<<"n">>), arg.v)>>)
    \/ Len(heap) = 2 /\ heap[1].children = <<>> /\ AddNodes(1, <<TagEntity(2)>>)
    \/ last.op # "init" /\ \E id \in DOMAIN heap : \E sp \in ValidateSpacers : Render(id, sp)

SpecValidate == InitValidate /\ [][NextValidate]_vars

(***************************************************************************)
(* SpecSVG: wrappers are made, given components and properties, exported   *)
(* and printed.  The heap starts with the TAT_Entity() that is the default *)
(* raw_content and with one TAT_Comment; an export adds the entities it    *)
(* makes, which stay in the heap until the next call on a wrapper: the     *)
(* caller holds the tree that export returned until then, and nothing else *)
(* refers to it.                                                           *)
(***************************************************************************)
MaxWrappers == 3
MaxComponents == 2
MaxProps == 2

SvgEntities ==
    TAT_Comment__init__(<<TAT_Entity__init__(VStr(<<>>))>>, VStr(<<"c">>)).heap

\* The entities that are still referred to when the next call is made
Live(h) == SubSeq(h, 1, Len(SvgEntities))

IsElement(w, i) ==
    i \in DOMAIN w /\ w[i].cls \in {"SVG_Element", "SVG_Text", "SVG_Group", "SVG_Document"}

IsGroup(w, i) == i \in DOMAIN w /\ w[i].cls \in {"SVG_Group", "SVG_Document"}

\* The properties argument of a constructor: omitted (the default dict of
\* the class, props[default_id]) or a dict display, which makes a new dict
PropsArg(properties, default_id) ==
    IF properties.default
    THEN [props |-> props, id |-> default_id]
    ELSE [props |-> Append(props, properties.items), id |-> Len(props) + 1]

\* SVG_Entity(raw_content)
NewSvgEntity(raw_content) ==
    /\ raw_content \in DOMAIN Live(heap)
    /\ svg' = Append(svg, SVG_Entity__init__(raw_content))
    /\ last' = Call("SVG_Entity", 0, "ok", Len(svg) + 1)
    /\ heap' = Live(heap)
    /\ UNCHANGED <<arg, default_spacer, spacers, props>>

\* SVG_Element(name) or SVG_Element(name, {...})
NewElement(name, properties) ==
    /\ LET a == PropsArg(properties, 1)
       IN  /\ props' = a.props
           /\ svg' = Append(svg, SVG_Element__init__(name, a.id))
    /\ last' = Call("SVG_Element", 0, "ok", Len(svg) + 1)
    /\ heap' = Live(heap)
    /\ UNCHANGED <<arg, default_spacer, spacers>>

\* SVG_Text(text) or SVG_Text(text, {...})
NewText(text, properties) ==
    /\ LET a == PropsArg(properties, 2)
       IN  /\ props' = a.props
           /\ svg' = Append(svg, SVG_Text__init__(text, a.id))
    /\ last' = Call("SVG_Text", 0, "ok", Len(svg) + 1)
    /\ heap' = Live(heap)
    /\ UNCHANGED <<arg, default_spacer, spacers>>

\* SVG_Group(), SVG_Group({...}), SVG_Group(name=...)
NewGroup(properties, name) ==
    /\ LET a == PropsArg(properties, 3)
       IN  /\ props' = a.props
           /\ svg' = Append(svg, SVG_Group__init__(a.id, name))
    /\ last' = Call("SVG_Group", 0, "ok", Len(svg) + 1)
    /\ heap' = Live(heap)
    /\ UNCHANGED <<arg, default_spacer, spacers>>

\* SVG_Document(width, height); arg keeps the width and the height given
NewDocument(width, height) ==
    /\ props' = Append(props, SVG_Document_properties(width, height))
    /\ svg' = Append(svg, SVG_Document__init__(Len(props) + 1))
    /\ last' = Call("SVG_Document", 0, "ok", Len(svg) + 1)
    /\ arg' = [v |-> <<width, height>>, role |-> "size"]
    /\ heap' = Live(heap)
    /\ UNCHANGED <<default_spacer, spacers>>

\* svg[i].set_props(*dicts, **properties)
SetProps(i, dicts, properties) ==
    /\ IsElement(svg, i)
    /\ LET r == set_props(props, svg, i, dicts, properties)
       IN  /\ props' = r.props
           /\ last' = Call("set_props", i, r.status, r.ret)
    /\ heap' = Live(heap)
    /\ UNCHANGED <<arg, default_spacer, spacers, svg>>

\* svg[i].add(svg[entity])
Add(i, entity) ==
    /\ IsGroup(svg, i)
    /\ entity \in DOMAIN svg
    /\ LET r == SVG_Group_add(svg, i, entity)
       IN  /\ svg' = r.svg
           /\ last' = Call("add", i, r.status, r.ret)
    /\ heap' = Live(heap)
    /\ UNCHANGED <<arg, default_spacer, spacers, props>>

\* The outcome r of export recorded as the outcome of the call op of svg[i]
ExportOutcome(op, i, r) ==
    /\ heap' = r.heap
    /\ last' = Call(op, i, r.status, IF r.status = "ok" THEN r.ret ELSE 0)

\* svg[i].export()
Export(i) ==
    /\ i \in DOMAIN svg
    /\ IF UnboundedSvg(svg, i)
       THEN ExportOutcome("export", i, [heap |-> Live(heap), status |-> "RecursionError"])
       ELSE ExportOutcome("export", i, export(Live(heap), props, svg, i))
    /\ UNCHANGED <<arg, default_spacer, spacers, svg, props>>

\* f"{e}\n", f being the outcome of e.format_string() for the entity e of
\* class cls that export returned
SvgStrOutcome(i, r, cls, f) ==
    /\ heap' = r.heap
    /\ default_spacer' = [default_spacer EXCEPT ![cls] = f.spacer]
    /\ last' = [Call("__str__", i, "ok", r.ret) EXCEPT !.out = f.str \o <<"\n">>]

\* f"{self.export()}\n", r being the outcome of self.export()
SvgStrFormat(i, r) ==
    IF r.status # "ok"
    THEN ExportOutcome("__str__", i, r) /\ UNCHANGED default_spacer
    ELSE SvgStrOutcome(i, r, r.heap[r.ret].cls,
                       format_string(r.heap, r.ret, default_spacer[r.heap[r.ret].cls]))

\* str(svg[i])
SvgStr(i) ==
    /\ i \in DOMAIN svg
    /\ IF UnboundedSvg(svg, i)
       THEN SvgStrFormat(i, [heap |-> Live(heap), status |-> "RecursionError"])
       ELSE SvgStrFormat(i, export(Live(heap), props, svg, i))
    /\ UNCHANGED <<arg, spacers, svg, props>>

NoProps == [default |-> TRUE, items |-> <<>>]
Props(items) == [default |-> FALSE, items |-> items]

\* What the k-th constructor call is given
GroupArgs(k) ==
    IF k = 1
    THEN {[properties |-> NoProps, name |-> S(<<"g">>)],
          [properties |-> Props(<<Item(S(<<"x">>), S(<<"v">>))>>), name |-> S(<<"g">>)],
          [properties |-> NoProps, name |-> S(<<"d">>)]}
    ELSE IF k = 3 THEN {[properties |-> NoProps, name |-> S(<<"g">>)]}
    ELSE {}
ElementArgs(k) ==
    IF k = 1 THEN {}
    ELSE IF k = 2
    THEN {[name |-> S(<<"a">>), properties |-> NoProps],
          [name |-> S(<<"a">>), properties |-> Props(<<Item(S(<<"y">>), VInt(-3))>>)],
          [name |-> S(<<"2">>), properties |-> NoProps]}
    ELSE {[name |-> S(<<"a">>), properties |-> NoProps]}
TextArgs(k) ==
    IF k = 1 THEN {}
    ELSE IF k = 2 THEN {[text |-> S(<<"t">>), properties |-> NoProps]}
    ELSE {[text |-> S(<<"t">>), properties |-> NoProps]}
RawContentArgs(k) == IF k = 3 THEN DOMAIN SvgEntities ELSE {}

\* set_props calls: [dicts, attrs]
GroupSetPropsCalls ==
    {[dicts |-> <<DictArg(<<Item(S(<<"x">>), VFloat(5))>>)>>, attrs |-> <<>>],
     [dicts |-> <<>>, attrs |-> <<Item(S(<<"z">>), S(<<"<">>))>>]}

TotalComponents(w) == LET RECURSIVE Sum(_)
                          Sum(i) == IF i = 0 THEN 0 ELSE Len(w[i].components) + Sum(i - 1)
                      IN  Sum(Len(w))

TotalProps(p) == LET RECURSIVE Sum(_)
                     Sum(i) == IF i = 0 THEN 0 ELSE Len(p[i]) + Sum(i - 1)
                 IN  Sum(Len(p))

InitSVG ==
    /\ heap = SvgEntities
    /\ last = Call("init", 0, "ok", 0)
    /\ arg = NoArg
    /\ default_spacer = DefaultSpacers
    /\ spacers = <<>>
    /\ svg = <<>>
    /\ props = DefaultProps

NextSVG ==
    \/ \E raw_content \in RawContentArgs(Len(svg) + 1) :
          Len(svg) < MaxWrappers /\ NewSvgEntity(raw_content)
    \/ \E a \in ElementArgs(Len(svg) + 1) :
          Len(svg) < MaxWrappers /\ NewElement(a.name, a.properties)
    \/ \E a \in TextArgs(Len(svg) + 1) :
          Len(svg) < MaxWrappers /\ NewText(a.text, a.properties)
    \/ \E a \in GroupArgs(Len(svg) + 1) :
          Len(svg) < MaxWrappers /\ NewGroup(a.properties, a.name)
    \/ \E i \in DOMAIN svg : \E c \in GroupSetPropsCalls :
          svg[i].cls = "SVG_Group" /\ SetProps(i, c.dicts, c.attrs)
             /\ TotalProps(props') <= MaxProps
    \/ \E i \in DOMAIN svg : \E entity \in DOMAIN svg :
          Add(i, entity) /\ TotalComponents(svg') <= MaxComponents
    \/ \E i \in DOMAIN svg : Export(i)
    \/ \E i \in DOMAIN svg : SvgStr(i)

SpecSVG == InitSVG /\ [][NextSVG]_vars

(***************************************************************************)
(* SpecProps: one or two elements or texts, any sequence of set_props      *)
(* calls, exports and printings                                            *)
(***************************************************************************)
MaxElements == 2

ElementNames == {S(<<"a">>), S(<<"2">>), VInt(1)}
TextInputs == {S(<<"t">>), S(<<>>), VInt(305)}
PropertyArgs ==
    {NoProps,
     Props(<<Item(S(<<"x">>), S(<<"v">>))>>),
     Props(<<Item(S(<<"s", "e", "l", "f">>), S(<<"v">>))>>)}

\* set_props calls: [dicts, attrs]
SetPropsCalls ==
    {[dicts |-> <<DictArg(<<Item(S(<<"y">>), VInt(-3))>>)>>, attrs |-> <<>>],
     [dicts |-> <<>>, attrs |-> <<Item(S(<<"x">>), S(<<"<">>))>>],
     [dicts |-> <<NoneArg, DictArg(<<Item(S(<<"x">>), S(<<"v">>))>>)>>,
      attrs |-> <<Item(S(<<"x">>), VFloat(5))>>],
     [dicts |-> <<DictArg(<<Item(S(<<"2">>), VNone)>>)>>, attrs |-> <<>>],
     [dicts |-> <<DictArg(<<Item(S(<<"s", "e", "l", "f">>), S(<<"v">>))>>)>>, attrs |-> <<>>],
     [dicts |-> <<DictArg(<<Item(VInt(1), S(<<"v">>))>>)>>, attrs |-> <<>>],
     [dicts |-> <<ListArg>>, attrs |-> <<>>],
     [dicts |-> <<NoneArg>>, attrs |-> <<>>]}

NextProps ==
    \/ \E name \in ElementNames :
          \E properties \in (IF svg = <<>> THEN PropertyArgs ELSE {NoProps}) :
             Len(svg) < MaxElements /\ NewElement(name, properties)
    \/ \E text \in TextInputs :
          \E properties \in (IF svg = <<>> THEN PropertyArgs ELSE {NoProps}) :
             Len(svg) < MaxElements /\ (svg # <<>> => text = S(<<"t">>))
                /\ NewText(text, properties)
    \/ \E i \in DOMAIN svg : \E c \in SetPropsCalls :
          SetProps(i, c.dicts, c.attrs) /\ TotalProps(props') <= MaxProps
    \/ \E i \in DOMAIN svg : Export(i)
    \/ \E i \in DOMAIN svg : SvgStr(i)

SpecProps == InitSVG /\ [][NextProps]_vars

(***************************************************************************)
(* SpecDocument: one SVG_Document, then an element or SVG_Entity(), then   *)
(* SVG_Entity() or SVG_Entity(comment), added to the document in any       *)
(* order, exported and printed                                             *)
(***************************************************************************)
DocumentSizes == {VInt(305), VInt(0), VFloat(5), VFloat(20)}

NextDocument ==
    \/ \E width \in DocumentSizes : \E height \in DocumentSizes :
          svg = <<>> /\ NewDocument(width, height)
    \/ Len(svg) = 1 /\ Len(svg) < MaxWrappers /\ NewElement(S(<<"a">>), NoProps)
    \/ \E raw_content \in DOMAIN SvgEntities :
          /\ Len(svg) >= 1 /\ Len(svg) < MaxWrappers
          /\ Len(svg) = 1 => raw_content = DefaultRawContent
          /\ NewSvgEntity(raw_content)
    \/ \E entity \in DOMAIN svg :
          entity # 1 /\ Add(1, entity) /\ TotalComponents(svg') <= MaxComponents
    \/ \E i \in DOMAIN svg : Export(i)
    \/ \E i \in DOMAIN svg : SvgStr(i)

SpecDocument == InitSVG /\ [][NextDocument]_vars

(***************************************************************************)
(* SpecSpacer: Spacer objects made by Spacer(level, indent_size) and by    *)
(* spacer + diff, and their str().  spacers[i] is the Spacer object with   *)
(* identity i; arg is the diff of the last spacer + diff.                  *)
(***************************************************************************)
MaxSpacers == 3

SpacerLevels == 0..(MaxLevel + 1)
SpacerIndents == 0..MaxIndent
SpacerDiffs == {-1, 1, 2}

\* Spacer(level, indent_size)
NewSpacer(level, indent_size) ==
    /\ spacers' = Append(spacers, Spacer(level, indent_size))
    /\ last' = Call("Spacer", 0, "ok", Len(spacers) + 1)
    /\ UNCHANGED <<heap, arg, default_spacer, svg, props>>

\* spacers[i] + diff
SpacerAdd(i, diff) ==
    /\ i \in DOMAIN spacers
    /\ LET r == Spacer__add__(spacers[i], diff)
       IN  spacers' = Append([spacers EXCEPT ![i] = r.self], r.ret)
    /\ last' = Call("Spacer.__add__", i, "ok", Len(spacers) + 1)
    /\ arg' = [v |-> VInt(diff), role |-> "diff"]
    /\ UNCHANGED <<heap, default_spacer, svg, props>>

\* str(spacers[i])
SpacerStr(i) ==
    /\ i \in DOMAIN spacers
    /\ last' = [Call("Spacer.__str__", i, "ok", 0) EXCEPT !.out = Spacer__str__(spacers[i])]
    /\ UNCHANGED <<heap, arg, default_spacer, spacers, svg, props>>

InitSpacer ==
    /\ heap = <<>>
    /\ last = Call("init", 0, "ok", 0)
    /\ arg = NoArg
    /\ default_spacer = DefaultSpacers
    /\ spacers = <<>>
    /\ svg = <<>>
    /\ props = DefaultProps

NextSpacer ==
    \/ \E level \in SpacerLevels : \E indent_size \in SpacerIndents :
          Len(spacers) < MaxSpacers /\ NewSpacer(level, indent_size)
    \/ \E i \in DOMAIN spacers : \E diff \in SpacerDiffs :
          Len(spacers) < MaxSpacers /\ SpacerAdd(i, diff)
    \/ \E i \in DOMAIN spacers : SpacerStr(i)

SpecSpacer == InitSpacer /\ [][NextSpacer]_vars

(***************************************************************************)
(* SpecNodes: two nodes and a comment, any sequence of add_nodes calls,    *)
(* with lists, tuples, None and foreign objects at any depth, and          *)
(* renderings                                                              *)
(***************************************************************************)
SequenceArgs(a, b) ==
    LET A == TagEntity(a)
        B == TagEntity(b)
    IN  {<<TagTuple(<<A, B>>)>>, <<TagTuple(<<>>)>>, <<A, TagTuple(<<B>>)>>,
         <<TagList(<<A, TagTuple(<<B>>)>>)>>, <<TagTuple(<<TagList(<<A>>)>>)>>,
         <<TagTuple(<<TagOther>>)>>, <<TagList(<<TagNone, TagList(<<>>)>>), A>>}

SequenceCalls(h) ==
    TagCalls(h) \cup UNION {SequenceArgs(a, b) : a \in DOMAIN h, b \in DOMAIN h}

InitNodes ==
    /\ heap = TAT_Comment__init__(
                 TAT_Node__init__(TAT_Node__init__(<<>>, S(<<"r">>)).heap,
                                  S(<<"n", ":", "i">>)).heap,
                 S(<<"c">>)).heap
    /\ last = Call("init", 0, "ok", 0)
    /\ arg = NoArg
    /\ default_spacer = DefaultSpacers
    /\ spacers = <<>>
    /\ svg = <<>>
    /\ props = DefaultProps

NextNodes ==
    \/ \E id \in DOMAIN heap : \E tags \in SequenceCalls(heap) :
          AddNodes(id, tags) /\ TotalEdges(heap') <= MaxEdges
    \/ \E id \in DOMAIN heap : \E sp \in SpacerArgs : Render(id, sp)

SpecNodes == InitNodes /\ [][NextNodes]_vars

(***************************************************************************)
(* Properties.  What a property expects is written from the statement, not *)
(* from the operators above: texts are spelled out, the text of a number   *)
(* is looked up in a table of what Python prints for it.                   *)
(***************************************************************************)
Numeral(v) ==
    CASE v = VInt(0) -> <<"0">>
      [] v = VInt(-3) -> <<"-", "3">>
      [] v = VInt(-12) -> <<"-", "1", "2">>
      [] v = VInt(305) -> <<"3", "0", "5">>
      [] v = VFloat(4) -> <<"0", ".", "4">>
      [] v = VFloat(5) -> <<"0", ".", "5">>
      [] v = VFloat(-25) -> <<"-", "2", ".", "5">>
      [] v = VFloat(20) -> <<"2", ".", "0">>

TextOf(v) == IF v.t = "str" THEN v.s ELSE Numeral(v)

RECURSIVE Blank(_)
Blank(k) == IF k = 0 THEN <<>> ELSE Append(Blank(k - 1), " ")

RECURSIVE Lines(_)
Lines(strs) == IF Len(strs) = 1 THEN strs[1] ELSE strs[1] \o <<"\n">> \o Lines(Tail(strs))

RECURSIVE PairsText(_)
PairsText(attributes) ==
    IF attributes = <<>> THEN <<>>
    ELSE <<" ">> \o attributes[1].k \o <<"=", "\"">> \o TextOf(attributes[1].v) \o <<"\"">>
           \o PairsText(Tail(attributes))

\* The spacer a format_string call was given: Spacer(0, 1) when defaulted
Given(sp) == IF sp.default THEN [level |-> 0, unit |-> 1]
             ELSE [level |-> sp.level, unit |-> sp.indent_size]

Rendered == last.op = "format_string" /\ last.status = "ok"

Names(attributes) == [i \in 1..Len(attributes) |-> attributes[i].k]

\* The names a successful add_attrs call writes, in the order it writes them
RECURSIVE DictNames(_)
DictNames(dicts) ==
    IF dicts = <<>> THEN <<>>
    ELSE [i \in 1..Len(dicts[1].items) |-> dicts[1].items[i].k.s] \o DictNames(Tail(dicts))

WrittenNames(c) == DictNames(c.dicts) \o [i \in 1..Len(c.attrs) |-> c.attrs[i].k.s]

RECURSIVE FirstOccurrences(_)
FirstOccurrences(names) ==
    IF names = <<>> THEN <<>>
    ELSE LET front == FirstOccurrences(SubSeq(names, 1, Len(names) - 1))
             n == names[Len(names)]
         IN  IF \E i \in 1..Len(front) : front[i] = n THEN front ELSE Append(front, n)

\* C1: a TAT_Node with no children renders at indent 0 as the single line
\* '<' + name + attrs + ' />', attrs being empty without attributes and
\* otherwise one space and the space-joined name="value" pairs; and every
\* successful add_attrs call keeps the names in the order of their insertion.
C1_SelfClosingInInsertionOrder ==
    /\ (Rendered /\ heap[last.target].cls = "TAT_Node"
            /\ heap[last.target].children = <<>>
            /\ Given(last.spacer).level * Given(last.spacer).unit = 0)
        => last.out = <<"<">> \o heap[last.target].name
                        \o PairsText(heap[last.target].attributes) \o <<" ", "/", ">">>
    /\ \A c \in AttrCalls :
          LET r == add_attrs(heap, 1, c.dicts, c.attrs)
          IN  r.status = "ok" =>
                Names(r.heap[1].attributes)
                  = FirstOccurrences(Names(heap[1].attributes) \o WrittenNames(c))

\* str(node) is <e x="v" y:z="-3" /> after x and then y:z were written
C1_Witness ==
    /\ Rendered
    /\ last.spacer.default
    /\ heap[1].attributes = <<Item(<<"x">>, S(<<"v">>)), Item(<<"y", ":", "z">>, VInt(-3))>>
    /\ last.out = <<"<", "e", " ", "x", "=", "\"", "v", "\"", " ",
                    "y", ":", "z", "=", "\"", "-", "3", "\"", " ", "/", ">">>

\* C2: format_string(spacer) of a TAT_Node with at least one child is the
\* newline-join of the opening line spacer + '<name attrs>', each child's
\* format_string(spacer + 1) in child-list order, and the closing line
\* spacer + '</name>' at the indent of the opening line.
C2_OpenChildrenClose ==
    (Rendered /\ heap[last.target].cls = "TAT_Node" /\ heap[last.target].children # <<>>)
    => LET self == heap[last.target]
           g == Given(last.spacer)
           pad == Blank(g.level * g.unit)
           deeper == Spacer(g.level + 1, g.unit)
       IN  last.out =
             Lines(<<pad \o <<"<">> \o self.name \o PairsText(self.attributes) \o <<">">>>>
                   \o [i \in 1..Len(self.children) |->
                          format_string(heap, self.children[i], deeper).str]
                   \o <<pad \o <<"<", "/">> \o self.name \o <<">">>>>)

\* a node with two children, one of them a node, rendered at level 1 of a
\* two-space indent
C2_Witness ==
    /\ Rendered
    /\ Len(heap[last.target].children) = 2
    /\ last.spacer = [default |-> FALSE, level |-> 1, indent_size |-> 2]
    /\ \E i \in 1..2 : heap[heap[last.target].children[i]].cls = "TAT_Node"

\* The lines of an entity at nesting depth d under indent unit u
RECURSIVE DepthLines(_, _, _, _)
DepthLines(h, id, d, u) ==
    LET e == h[id]
        pad == Blank(d * u)
    IN  CASE e.cls = "TAT_Entity" -> <<pad \o TextOf(e.raw_content)>>
          [] e.cls = "TAT_Comment" ->
               <<pad \o <<"<", "!", "-", "-", " ">> \o TextOf(e.content) \o <<" ", "-", "-", ">">>>>
          [] e.cls = "TAT_Node" /\ e.children = <<>> ->
               <<pad \o <<"<">> \o e.name \o PairsText(e.attributes) \o <<" ", "/", ">">>>>
          [] OTHER ->
               LET RECURSIVE Kids(_)
                   Kids(cs) == IF cs = <<>> THEN <<>>
                               ELSE DepthLines(h, cs[1], d + 1, u) \o Kids(Tail(cs))
               IN  <<pad \o <<"<">> \o e.name \o PairsText(e.attributes) \o <<">">>>>
                   \o Kids(e.children)
                   \o <<pad \o <<"<", "/">> \o e.name \o <<">">>>>

\* C3: in a tree rendered from its root at level 0 with indent unit u, the
\* opening line of every entity at nesting depth d, and the closing line of
\* every node with children at depth d, starts with exactly d * u spaces.
C3_IndentIsDepthTimesUnit ==
    (Rendered /\ Given(last.spacer).level = 0)
    => last.out = Lines(DepthLines(heap, last.target, 0, Given(last.spacer).unit))

\* <r>, <n:i> at depth 1 and a comment at depth 2, two spaces per level
C3_Witness ==
    /\ Rendered
    /\ last.out = <<"<", "r", ">", "\n",
                    " ", " ", "<", "n", ":", "i", ">", "\n",
                    " ", " ", " ", " ", "<", "!", "-", "-", " ", "c", " ", "-", "-", ">", "\n",
                    " ", " ", "<", "/", "n", ":", "i", ">", "\n",
                    "<", "/", "r", ">">>

\* C4: format_string changes no name, attribute map or child list, and a
\* second format_string call with no mutation in between returns the text
\* the first returned.
C4_RenderIsIdempotent ==
    [][last'.op = "format_string"
         => /\ heap' = heap
            /\ (last'.again => last'.out = last.out)]_vars

\* str(node) twice in a row on a node that has a child
C4_Witness ==
    /\ Rendered
    /\ last.again
    /\ last.spacer.default
    /\ heap[last.target].cls = "TAT_Node"
    /\ heap[last.target].children # <<>>

\* The entities in an add_nodes argument list, depth first, left to right
RECURSIVE Flatten(_)
Flatten(tags) ==
    IF tags = <<>> THEN <<>>
    ELSE (CASE tags[1].k = "entity" -> <<tags[1].id>>
            [] tags[1].k = "list" -> Flatten(tags[1].items)
            [] OTHER -> <<>>)
         \o Flatten(Tail(tags))

\* An argument list that holds, at some depth, an object that is neither an
\* entity, a list nor None
RECURSIVE HasOther(_)
HasOther(tags) ==
    \E i \in 1..Len(tags) :
       \/ tags[i].k = "other"
       \/ tags[i].k = "list" /\ HasOther(tags[i].items)

\* C10: a successful add_nodes call appends, after the existing children,
\* the entities of its arguments in left-to-right depth-first order, lists
\* flattened to any depth and None skipped; add_nodes(a, b), add_nodes([a, b])
\* and add_nodes(a) followed by add_nodes(b) give the same child list.
C10_AppendsFlattened ==
    \A id \in DOMAIN heap :
       IsNode(heap, id) =>
         /\ \A tags \in TagCalls(heap) :
               LET r == add_nodes(heap, id, tags)
               IN  /\ ~HasOther(tags) => r.status = "ok"
                   /\ r.status = "ok" =>
                         /\ r.heap[id].children = heap[id].children \o Flatten(tags)
                         /\ \A x \in DOMAIN heap : x # id => r.heap[x] = heap[x]
         /\ \A a, b \in DOMAIN heap :
               LET both == add_nodes(heap, id, <<TagEntity(a), TagEntity(b)>>)
                   list == add_nodes(heap, id, <<TagList(<<TagEntity(a), TagEntity(b)>>)>>)
                   one == add_nodes(heap, id, <<TagEntity(a)>>)
                   two == add_nodes(one.heap, id, <<TagEntity(b)>>)
               IN  /\ both.status = "ok" /\ list.status = "ok" /\ two.status = "ok"
                   /\ both.heap = list.heap
                   /\ both.heap = two.heap

\* add_nodes has put entities 2 and 3 under node 1
C10_Witness ==
    /\ last.op = "add_nodes"
    /\ last.status = "ok"
    /\ last.target = 1
    /\ heap[1].children = <<2, 3>>

\* One or two colon-separated segments, each a letter or underscore followed
\* by letters, digits, hyphens or underscores
Segments(s) ==
    LET colons == {i \in 1..Len(s) : s[i] = ":"}
    IN  IF colons = {} THEN <<s>>
        ELSE IF Cardinality(colons) = 1
        THEN LET i == CHOOSE i \in colons : TRUE
             IN  <<SubSeq(s, 1, i - 1), SubSeq(s, i + 1, Len(s))>>
        ELSE <<>>

GoodSegment(g) ==
    /\ g # <<>>
    /\ Head(g) \in Letters \cup {"_"}
    /\ \A i \in 1..Len(g) : g[i] \in Letters \cup Digits \cup {"-", "_"}

NameRule(v) ==
    IF v.t # "str" THEN "TypeError"
    ELSE IF Segments(v.s) # <<>> /\ \A i \in 1..Len(Segments(v.s)) : GoodSegment(Segments(v.s)[i])
    THEN "ok"
    ELSE "ValueError"

\* C5: TAT_Node(name) and add_attrs, for every attribute name it is given,
\* raise TypeError for a name that is not a string, accept a string exactly
\* when it is one or two colon-separated segments of the name grammar, and
\* raise ValueError for any other string.
C5_SameNameRule ==
    /\ last.op = "TAT_Node" => last.status = NameRule(arg.v)
    /\ (last.op = "add_attrs" /\ arg.role \in {"attr_name", "dict_key"})
          => last.status = NameRule(arg.v)

\* The name rule as TAT_Node(name) applies it
C5_NodeNameRule ==
    last.op = "TAT_Node" =>
      /\ last.status = NameRule(arg.v)
      /\ last.status = "ok" => heap[last.ret].name = arg.v.s
      /\ last.status # "ok" => Len(heap) = 1

HasAny(s, chars) == \E i \in 1..Len(s) : s[i] \in chars

ValueRule(v) ==
    IF v.t = "str" THEN (IF HasAny(v.s, {"\"", "<", ">"}) THEN "ValueError" ELSE "ok")
    ELSE IF v.t \in {"int", "float"} THEN "ok"
    ELSE "TypeError"

\* C6: add_attrs accepts an attribute value exactly when it is a string with
\* none of the characters '"', '<', '>' (the empty string included) or an int
\* or a float; it raises ValueError for a string with one of the three
\* characters and TypeError for a value of any other type.
C6_ValueRule ==
    (last.op = "add_attrs" /\ arg.role = "attr_value") =>
      /\ last.status = ValueRule(arg.v)
      /\ heap[1].attributes = IF last.status = "ok" THEN <<Item(<<"n">>, arg.v)>> ELSE <<>>

\* add_attrs(n="") has stored the empty string
C6_Witness ==
    /\ last.op = "add_attrs"
    /\ last.status = "ok"
    /\ arg = [v |-> S(<<>>), role |-> "attr_value"]
    /\ heap[1].attributes = <<Item(<<"n">>, S(<<>>))>>

HasDoubleHyphen(s) == \E i \in 1..Len(s) - 1 : s[i] = "-" /\ s[i + 1] = "-"

\* C7: TAT_Comment(content) raises ValueError when content is the empty
\* string or a string with '--' at any position, TypeError when content is
\* not a string, int or float, and in both cases makes no comment object.
C7_CommentRejects ==
    last.op = "TAT_Comment" =>
      /\ (arg.v.t = "str" /\ (arg.v.s = <<>> \/ HasDoubleHyphen(arg.v.s)))
            => (last.status = "ValueError" /\ Len(heap) = 1)
      /\ arg.v.t \notin {"str", "int", "float"}
            => (last.status = "TypeError" /\ Len(heap) = 1)

\* TAT_Comment("a--a") has raised ValueError
C7_Witness ==
    /\ last.op = "TAT_Comment"
    /\ last.status = "ValueError"
    /\ arg.v = S(<<"a", "-", "-", "a">>)
    /\ Len(heap) = 1

\* C8: TAT_Comment accepts every string that is not empty and does not
\* contain '--'; the only strings it rejects are the empty string and the
\* strings in which '--' occurs.
C8_CommentAcceptsTheRest ==
    (last.op = "TAT_Comment" /\ arg.v.t = "str") =>
      (last.status = "ok" <=> (arg.v.s # <<>> /\ ~HasDoubleHyphen(arg.v.s)))

\* C9: for every accepted content, TAT_Comment(content).format_string(spacer)
\* is the spacer's indentation, '<!-- ', the text of the content and ' -->'
\* on a single line; as a child of a node it is one level deeper than the node.
C9_CommentLine ==
    Rendered =>
      LET g == Given(last.spacer)
          line == <<"<", "!", "-", "-", " ">> \o TextOf(heap[2].content) \o <<" ", "-", "-", ">">>
      IN  /\ (last.target = 2 /\ heap[2].cls = "TAT_Comment")
                => /\ last.out = Blank(g.level * g.unit) \o line
                   /\ ~HasAny(last.out, {"\n"})
          /\ (last.target = 1 /\ heap[1].children = <<2>> /\ heap[2].cls = "TAT_Comment")
                => last.out = Blank(g.level * g.unit) \o <<"<", "e", ">", "\n">>
                                \o Blank((g.level + 1) * g.unit) \o line \o <<"\n">>
                                \o Blank(g.level * g.unit) \o <<"<", "/", "e", ">">>

\* TAT_Comment(-2.5) under <e>, rendered at level 1 of a two-space indent
C9_Witness ==
    /\ Rendered
    /\ last.target = 1
    /\ arg.v = VFloat(-25)
    /\ last.out = <<" ", " ", "<", "e", ">", "\n",
                    " ", " ", " ", " ", "<", "!", "-", "-", " ", "-", "2", ".", "5", " ", "-", "-", ">", "\n",
                    " ", " ", "<", "/", "e", ">">>

\* An argument list that holds, at some depth of lists and tuples, an object
\* that is neither an entity, a list, a tuple nor None
RECURSIVE HasForeign(_)
HasForeign(tags) ==
    \E i \in 1..Len(tags) :
       \/ tags[i].k = "other"
       \/ tags[i].k \in {"list", "tuple"} /\ HasForeign(tags[i].items)

\* An argument list that holds, at some depth of lists, an object that is
\* neither an entity, a list nor None
RECURSIVE HasNonList(_)
HasNonList(tags) ==
    \E i \in 1..Len(tags) :
       \/ tags[i].k \in {"other", "tuple"}
       \/ tags[i].k = "list" /\ HasNonList(tags[i].items)

\* C11 as stated: add_nodes raises TypeError for every argument list that
\* holds, at the top level or inside a nested sequence, an object that is
\* neither an entity, an ordered sequence (a list or a tuple) nor None, and
\* accepts every other argument list.
C11_AcceptsSequences ==
    \A id \in DOMAIN heap :
       IsNode(heap, id) =>
         \A tags \in SequenceCalls(heap) :
            add_nodes(heap, id, tags).status
              = IF HasForeign(tags) THEN "TypeError" ELSE "ok"

\* C11 amended: add_nodes raises TypeError exactly when its arguments hold,
\* at the top level or inside a nested list, an object that is neither an
\* entity, a list nor None; a tuple of entities is such an object.
C11_AcceptsListsOnly ==
    /\ \A id \in DOMAIN heap :
          IsNode(heap, id) =>
            \A tags \in SequenceCalls(heap) :
               add_nodes(heap, id, tags).status
                 = IF HasNonList(tags) THEN "TypeError" ELSE "ok"
    /\ (last.op = "add_nodes" /\ last.status # "ok") => last.status = "TypeError"

\* add_nodes has raised TypeError on node 1, which can still take (a, b)
C11_Witness ==
    /\ last.op = "add_nodes"
    /\ last.status = "TypeError"
    /\ last.target = 1
    /\ add_nodes(heap, 1, <<TagTuple(<<TagEntity(2), TagEntity(3)>>)>>).status = "TypeError"
    /\ add_nodes(heap, 1, <<TagList(<<TagEntity(2), TagEntity(3)>>)>>).status = "ok"

\* The entries of an add_attrs call in the order the statement gives them:
\* those of the mappings, mapping by mapping, then the named values
RECURSIVE MappingEntries(_)
MappingEntries(dicts) ==
    IF dicts = <<>> THEN <<>> ELSE dicts[1].items \o MappingEntries(Tail(dicts))

Entries(c) == MappingEntries(c.dicts) \o c.attrs

\* An attribute map after one entry is merged into it
Put(attributes, e) ==
    IF \E i \in 1..Len(attributes) : attributes[i].k = e.k.s
    THEN LET i == CHOOSE i \in 1..Len(attributes) : attributes[i].k = e.k.s
         IN  [attributes EXCEPT ![i] = [k |-> e.k.s, v |-> e.v]]
    ELSE attributes \o <<[k |-> e.k.s, v |-> e.v]>>

RECURSIVE Merged(_, _)
Merged(attributes, entries) ==
    IF entries = <<>> THEN attributes
    ELSE Merged(Put(attributes, entries[1]), Tail(entries))

\* C12: a successful add_attrs call leaves the attribute map that merging
\* the entries of its mappings, mapping by mapping in argument order and each
\* in its key order, and then its named values gives; a None mapping is
\* skipped, and add_attrs(None) succeeds and leaves the map as it was.
C12_MappingsThenNamed ==
    /\ \A c \in AttrCalls :
          LET r == add_attrs(heap, 1, c.dicts, c.attrs)
          IN  r.status = "ok" => r.heap[1].attributes = Merged(heap[1].attributes, Entries(c))
    /\ LET r == add_attrs(heap, 1, <<NoneArg>>, <<>>)
       IN  r.status = "ok" /\ r.heap = heap /\ r.ret = 1
    /\ LET r == add_attrs(heap, 1, <<NoneArg, DictArg(<<Item(S(<<"x">>), VInt(-3))>>), NoneArg>>, <<>>)
       IN  r = add_attrs(heap, 1, <<DictArg(<<Item(S(<<"x">>), VInt(-3))>>)>>, <<>>)

\* add_attrs({"y:z": -3}, x="v") on a fresh node gives y:z before x
C12_Witness ==
    /\ last.op = "add_attrs"
    /\ last.status = "ok"
    /\ heap[1].attributes = <<Item(<<"y", ":", "z">>, VInt(-3)), Item(<<"x">>, S(<<"v">>))>>

\* The value the most recent entry named n gives, or none when no entry
\* names n
LastWritten(entries, n) ==
    LET at == {i \in 1..Len(entries) : entries[i].k.s = n}
    IN  IF at = {} THEN <<>>
        ELSE <<entries[CHOOSE i \in at : \A j \in at : j <= i].v>>

ValueOf(attributes, n) ==
    LET at == {i \in 1..Len(attributes) : attributes[i].k = n}
    IN  IF at = {} THEN <<>> ELSE <<attributes[CHOOSE i \in at : TRUE].v>>

\* C13: every attribute name occurs once in the attribute map of a node, and
\* once in its rendering; after a successful add_attrs call the value of a
\* name is the one its most recent write gave: the last entry of the call
\* that names it, or the value it had before when the call does not name it.
C13_UniqueLastWriteWins ==
    /\ \A i, j \in 1..Len(heap[1].attributes) :
          heap[1].attributes[i].k = heap[1].attributes[j].k => i = j
    /\ (Rendered /\ Given(last.spacer).level = 0) =>
          last.out = <<"<">> \o heap[1].name \o PairsText(heap[1].attributes) \o <<" ", "/", ">">>
    /\ \A c \in AttrCalls :
          LET r == add_attrs(heap, 1, c.dicts, c.attrs)
              after == r.heap[1].attributes
          IN  /\ \A i, j \in 1..Len(after) : after[i].k = after[j].k => i = j
              /\ r.status = "ok" =>
                    \A n \in {after[i].k : i \in 1..Len(after)} :
                       ValueOf(after, n)
                         = IF LastWritten(Entries(c), n) # <<>>
                           THEN LastWritten(Entries(c), n)
                           ELSE ValueOf(heap[1].attributes, n)

\* x was written as "v" and then as -3: the node renders x once, as -3
C13_Witness ==
    /\ Rendered
    /\ last.spacer.default
    /\ heap[1].name = <<"e">>
    /\ heap[1].attributes = <<Item(<<"x">>, VInt(-3))>>
    /\ last.out = <<"<", "e", " ", "x", "=", "\"", "-", "3", "\"", " ", "/", ">">>

\* C15: str() of a Spacer with level >= 0 and indent size >= 0 is level *
\* indent size characters, each of them a space; it is empty when the level
\* or the indent size is 0.
C15_LevelTimesUnitSpaces ==
    last.op = "Spacer.__str__" =>
      LET self == spacers[last.target]
      IN  (self.level >= 0 /\ self.indent_size >= 0) =>
            /\ Len(last.out) = self.level * self.indent_size
            /\ \A i \in 1..Len(last.out) : last.out[i] = " "
            /\ (self.level = 0 \/ self.indent_size = 0) => last.out = <<>>

\* str(Spacer(2, 2)) is four spaces
C15_Witness ==
    /\ last.op = "Spacer.__str__"
    /\ spacers[last.target] = Spacer(2, 2)
    /\ last.out = <<" ", " ", " ", " ">>

\* C16: spacer + diff makes a new Spacer whose level is the receiver's plus
\* diff and whose indent size is the receiver's; the receiver, like every
\* other Spacer, keeps its level, its indent size and its text, and
\* (s + 1) + 1 has the text of s + 2.
C16_AddMakesNewSpacer ==
    [][last'.op = "Spacer.__add__"
         => LET self == spacers[last'.target]
                diff == arg'.v.n
            IN  /\ Len(spacers') = Len(spacers) + 1
                /\ last'.ret = Len(spacers')
                /\ \A i \in DOMAIN spacers :
                      /\ spacers'[i] = spacers[i]
                      /\ Spacer__str__(spacers'[i]) = Spacer__str__(spacers[i])
                /\ spacers'[last'.ret].level = self.level + diff
                /\ spacers'[last'.ret].indent_size = self.indent_size
                /\ Spacer__str__(Spacer__add__(Spacer__add__(self, 1).ret, 1).ret)
                      = Spacer__str__(Spacer__add__(self, 2).ret)
                /\ self.level >= 0 =>
                      Spacer__str__(Spacer__add__(self, 2).ret)
                        = Blank((self.level + 2) * self.indent_size)]_vars

\* Spacer(0, 2) + 1 has made Spacer(1, 2) and left Spacer(0, 2) as it was
C16_Witness ==
    /\ last.op = "Spacer.__add__"
    /\ arg.v = VInt(1)
    /\ spacers[last.target] = Spacer(0, 2)
    /\ spacers[last.ret] = Spacer(1, 2)

\* C14: a successful add_nodes, add_attrs, set_props or add returns its
\* receiver: the call just made did, and so does any of the four made next;
\* hence group.add(e).set_props(...) leaves the wrappers, the dicts and the
\* export as group.add(e) followed by group.set_props(...) does.
C14_MutatorsReturnReceiver ==
    /\ (last.op \in {"set_props", "add"} /\ last.status = "ok") => last.ret = last.target
    /\ \A id \in DOMAIN heap :
          IsNode(heap, id) =>
            /\ add_nodes(heap, id, <<TagEntity(1), TagList(<<TagEntity(2)>>)>>).ret = id
            /\ add_attrs(heap, id, <<DictArg(<<Item(S(<<"k">>), VInt(0))>>)>>,
                         <<Item(S(<<"m">>), S(<<"v">>))>>).ret = id
    /\ \A i \in DOMAIN svg :
          IsElement(svg, i) =>
            \A c \in GroupSetPropsCalls : set_props(props, svg, i, c.dicts, c.attrs).ret = i
    /\ \A i \in DOMAIN svg : \A e \in DOMAIN svg :
          svg[i].cls = "SVG_Group" =>
            LET a == SVG_Group_add(svg, i, e)
            IN  /\ a.status = "ok"
                /\ a.ret = i
                /\ \A c \in GroupSetPropsCalls :
                      LET chained == set_props(props, a.svg, a.ret, c.dicts, c.attrs)
                          apart == set_props(props, a.svg, i, c.dicts, c.attrs)
                      IN  /\ chained = apart
                          /\ UnboundedSvg(a.svg, i)
                                \/ export(Live(heap), chained.props, a.svg, chained.ret)
                                      = export(Live(heap), apart.props, a.svg, i)

\* SVG_Group().add(e2).set_props({"x": 0.5}).add(e3) has returned the group
C14_Witness ==
    /\ last.op = "add"
    /\ last.status = "ok"
    /\ last.ret = 1
    /\ svg[1].components = <<2, 3>>
    /\ props[svg[1].properties] = <<Item(S(<<"x">>), VFloat(5))>>

\* The attribute map that holds the entries of a property map
AsAttributes(properties) ==
    [i \in 1..Len(properties) |-> [k |-> properties[i].k.s, v |-> properties[i].v]]

\* The errors the validation rules of a node give for a tag name and a
\* property map
Violations(name, properties) ==
    ({NameRule(name)}
        \cup {NameRule(properties[i].k) : i \in 1..Len(properties)}
        \cup {ValueRule(properties[i].v) : i \in 1..Len(properties)}) \ {"ok"}

\* C17: export() of an SVG_Element raises one of the errors of the rules
\* that its tag name, a property name or a property value violates, and when
\* none is violated it returns a TAT_Node with the tag name as name, the
\* properties as attributes, in property order, and no children.
C17_ExportIsNodeOfProperties ==
    (last.op = "export" /\ svg[last.target].cls = "SVG_Element") =>
      LET self == svg[last.target]
          bad == Violations(self.name, props[self.properties])
      IN  IF bad # {} THEN last.status \in bad
          ELSE /\ last.status = "ok"
               /\ heap[last.ret].cls = "TAT_Node"
               /\ heap[last.ret].name = self.name.s
               /\ heap[last.ret].attributes = AsAttributes(props[self.properties])
               /\ heap[last.ret].children = <<>>

\* A property map after the entries of a call are merged into it, a later
\* entry replacing the value of an earlier one of the same name
RECURSIVE MergedProps(_, _)
MergedProps(properties, entries) ==
    IF entries = <<>> THEN properties
    ELSE LET e == entries[1]
             at == {i \in 1..Len(properties) : properties[i].k = e.k}
         IN  MergedProps(IF at = {} THEN Append(properties, e)
                         ELSE [properties EXCEPT ![CHOOSE i \in at : TRUE] = e],
                         Tail(entries))

\* C18: set_props validates nothing: given mappings (or None) and named
\* values, it succeeds whatever the names and values are, and leaves in the
\* property map of the wrapper the entries of the mappings and then the named
\* values, last write winning; a name or value that the rules of a node
\* forbid is reported by export only.
C18_SetPropsNeverRaises ==
    \A i \in DOMAIN svg : \A c \in SetPropsCalls :
       (\A k \in 1..Len(c.dicts) : c.dicts[k].t \in {"dict", "NoneType"}) =>
         LET r == set_props(props, svg, i, c.dicts, c.attrs)
             own == svg[i].properties
         IN  /\ r.status = "ok"
             /\ r.ret = i
             /\ r.props[own] = MergedProps(props[own], Entries(c))

\* C19: export() of an SVG_Text returns a TAT_Node named text with the
\* properties as attributes and one child, a TAT_Entity whose raw content is
\* the text; the node renders as an opening line, the text one level deeper
\* on the next line, and a closing line.
C19_TextHasOneRawChild ==
    (last.op \in {"export", "__str__"} /\ last.status = "ok"
        /\ svg[last.target].cls = "SVG_Text") =>
      LET self == svg[last.target]
          node == heap[last.ret]
          attrs == AsAttributes(props[self.properties])
      IN  /\ node.cls = "TAT_Node"
          /\ node.name = <<"t", "e", "x", "t">>
          /\ node.attributes = attrs
          /\ Len(node.children) = 1
          /\ heap[node.children[1]].cls = "TAT_Entity"
          /\ heap[node.children[1]].raw_content = self.text
          /\ \A l \in 0..MaxLevel : \A u \in 0..MaxIndent :
                format_string(heap, last.ret, Spacer(l, u)).str
                  = Blank(l * u) \o <<"<", "t", "e", "x", "t">> \o PairsText(attrs) \o <<">", "\n">>
                      \o Blank((l + 1) * u) \o TextOf(self.text) \o <<"\n">>
                      \o Blank(l * u) \o <<"<", "/", "t", "e", "x", "t", ">">>
          /\ last.op = "__str__" =>
                last.out = <<"<", "t", "e", "x", "t">> \o PairsText(attrs) \o <<">", "\n", " ">>
                             \o TextOf(self.text)
                             \o <<"\n", "<", "/", "t", "e", "x", "t", ">", "\n">>

\* str(SVG_Text("", {"x": "v"})): the empty text still has its own line
C19_Witness ==
    /\ last.op = "__str__"
    /\ last.status = "ok"
    /\ svg[last.target].cls = "SVG_Text"
    /\ svg[last.target].text = S(<<>>)
    /\ last.out = <<"<", "t", "e", "x", "t", " ", "x", "=", "\"", "v", "\"", ">", "\n",
                    " ", "\n",
                    "<", "/", "t", "e", "x", "t", ">", "\n">>

\* Entity id of heap h is what wrapper c of w exports to
RECURSIVE Exported(_, _, _, _, _)
Exported(h, id, p, w, c) ==
    LET self == w[c]
        node == h[id]
    IN  IF self.cls = "SVG_Entity" THEN id = self.raw_content
        ELSE /\ node.cls = "TAT_Node"
             /\ node.name = self.name.s
             /\ node.attributes = AsAttributes(p[self.properties])
             /\ CASE self.cls = "SVG_Element" -> node.children = <<>>
                  [] self.cls = "SVG_Text" ->
                       /\ Len(node.children) = 1
                       /\ h[node.children[1]].cls = "TAT_Entity"
                       /\ h[node.children[1]].raw_content = self.text
                  [] self.cls = "SVG_Group" ->
                       /\ Len(node.children) = Len(self.components)
                       /\ \A j \in 1..Len(self.components) :
                             Exported(h, node.children[j], p, w, self.components[j])

\* C20: export() of an SVG_Group returns a TAT_Node with the name of the
\* group (g unless one was given) whose children are the exports of the
\* components, one for each add call, in the order of the add calls; a group
\* without components exports to a node without children, printed as a
\* self-closing tag.
C20_ChildrenAreComponentExports ==
    (last.op \in {"export", "__str__"} /\ last.status = "ok"
        /\ svg[last.target].cls = "SVG_Group") =>
      LET self == svg[last.target]
          node == heap[last.ret]
      IN  /\ node.name = self.name.s
          /\ Len(node.children) = Len(self.components)
          /\ Exported(heap, last.ret, props, svg, last.target)
          /\ (last.op = "__str__" /\ self.components = <<>>) =>
                last.out = <<"<">> \o self.name.s
                             \o PairsText(AsAttributes(props[self.properties]))
                             \o <<" ", "/", ">", "\n">>

\* SVG_Group().add(text).add(element) exported: a text node, then <a />
C20_Witness ==
    /\ last.op = "export"
    /\ last.status = "ok"
    /\ svg[last.target].cls = "SVG_Group"
    /\ svg[last.target].name = S(<<"g">>)
    /\ Len(svg[last.target].components) = 2
    /\ svg[svg[last.target].components[1]].cls = "SVG_Text"
    /\ svg[svg[last.target].components[2]].cls = "SVG_Element"
    /\ heap[heap[last.ret].children[1]].name = <<"t", "e", "x", "t">>
    /\ heap[heap[last.ret].children[2]].name = <<"a">>

\* The attributes of the node of a document of the given width and height
DocumentAttributes(width, height) ==
    <<Item(<<"x", "m", "l", "n", "s">>,
           S(<<"h", "t", "t", "p", ":", "/", "/", "w", "w", "w", ".", "w", "3", ".",
             "o", "r", "g", "/", "2", "0", "0", "0", "/", "s", "v", "g">>)),
      Item(<<"x", "m", "l", "n", "s", ":", "i", "n", "k", "s", "c", "a", "p", "e">>,
           S(<<"h", "t", "t", "p", ":", "/", "/", "w", "w", "w", ".", "i", "n", "k",
             "s", "c", "a", "p", "e", ".", "o", "r", "g", "/", "n", "a",
             "m", "e", "s", "p", "a", "c", "e", "s", "/", "i", "n", "k",
             "s", "c", "a", "p", "e">>)),
      Item(<<"x", "m", "l", "n", "s", ":", "x", "l", "i", "n", "k">>,
           S(<<"h", "t", "t", "p", ":", "/", "/", "w", "w", "w", ".", "w", "3", ".",
             "o", "r", "g", "/", "1", "9", "9", "9", "/", "x", "l", "i",
             "n", "k">>)),
      Item(<<"w", "i", "d", "t", "h">>, S(TextOf(width) \o <<"p", "x">>)),
      Item(<<"h", "e", "i", "g", "h", "t">>, S(TextOf(height) \o <<"p", "x">>))>>

\* C21: SVG_Document(width, height) has no components when it is made, and
\* exports to a TAT_Node named svg whose attributes are xmlns, xmlns:inkscape,
\* xmlns:xlink with their URLs and then width and height, each the text of
\* the given value followed by px; without components it prints as one
\* self-closing tag.
C21_DocumentAttributes ==
    /\ last.op = "SVG_Document" =>
          /\ svg[last.ret].cls = "SVG_Document"
          /\ svg[last.ret].components = <<>>
          /\ export(Live(heap), props, svg, last.ret).status = "ok"
    /\ (last.op \in {"export", "__str__"} /\ svg[last.target].cls = "SVG_Document") =>
          LET node == heap[last.ret]
              attrs == DocumentAttributes(arg.v[1], arg.v[2])
          IN  /\ last.status = "ok"
              /\ node.cls = "TAT_Node"
              /\ node.name = <<"s", "v", "g">>
              /\ node.attributes = attrs
              /\ Len(node.children) = Len(svg[last.target].components)
              /\ (last.op = "__str__" /\ svg[last.target].components = <<>>) =>
                    last.out = <<"<", "s", "v", "g">> \o PairsText(attrs)
                                 \o <<" ", "/", ">", "\n">>

\* SVG_Document(305, 0.5) exported before anything is added to it
C21_Witness ==
    /\ last.op = "export"
    /\ last.status = "ok"
    /\ svg[last.target].cls = "SVG_Document"
    /\ arg.v = <<VInt(305), VFloat(5)>>
    /\ Len(heap[last.ret].attributes) = 5
    /\ heap[last.ret].attributes[4].v = S(<<"3", "0", "5", "p", "x">>)
    /\ heap[last.ret].attributes[5].v = S(<<"0", ".", "5", "p", "x">>)
    /\ heap[last.ret].children = <<>>

\* No entity is a child of two parents or twice a child of one, and no node
\* is below itself
EntityTree(h) ==
    /\ \A x \in DOMAIN h : \A i, j \in 1..Len(h[x].children) :
          h[x].children[i] = h[x].children[j] => i = j
    /\ \A x, y \in DOMAIN h :
          x # y => \A i \in 1..Len(h[x].children) : \A j \in 1..Len(h[y].children) :
                      h[x].children[i] # h[y].children[j]
    /\ \A x \in DOMAIN h : x \notin Descendants(h, x)

\* C22: in every state reached by constructions, add_nodes, add and export
\* calls the entities form a tree: no entity is a child of two different
\* parents, none occurs twice in one child list, and no node is its own
\* ancestor.
C22_EntitiesFormTree == EntityTree(heap)

\* C23: a set_props or add call on one wrapper changes neither the property
\* map, nor the component list, nor the export of any other wrapper, whether
\* the wrappers were made with a properties mapping or without one.
C23_WrappersShareNothing ==
    [][last'.op \in {"set_props", "add"}
         => \A j \in DOMAIN svg :
               j # last'.target =>
                 /\ svg'[j].components = svg[j].components
                 /\ IsElement(svg, j) =>
                       props'[svg'[j].properties] = props[svg[j].properties]
                 /\ export(Live(heap), props', svg', j) = export(Live(heap), props, svg, j)]_vars

IsPrefix(a, b) == Len(a) <= Len(b) /\ SubSeq(b, 1, Len(a)) = a

\* C24: every step keeps the component list of every group and the names of
\* every property map as a prefix of what they are after the step; and in
\* every state each add_nodes call, successful or failing, keeps the child
\* list of its node as a prefix of the new one, each add_attrs call the names
\* of its node, each set_props call the names of its wrapper, and each add the
\* components of its group, all other lists and maps staying as they are.
C24_AppendOnly ==
    /\ [][/\ \A i \in DOMAIN svg : IsPrefix(svg[i].components, svg'[i].components)
          /\ \A d \in DOMAIN props : IsPrefix(Names(props[d]), Names(props'[d]))]_vars
    /\ [](/\ \A id \in DOMAIN heap :
                IsNode(heap, id) =>
                  /\ \A tags \in TagCalls(heap) :
                        LET r == add_nodes(heap, id, tags)
                        IN  /\ IsPrefix(heap[id].children, r.heap[id].children)
                            /\ \A x \in DOMAIN heap :
                                  /\ r.heap[x].attributes = heap[x].attributes
                                  /\ x # id => r.heap[x].children = heap[x].children
                  /\ \A c \in AttrCalls :
                        LET r == add_attrs(heap, id, c.dicts, c.attrs)
                        IN  /\ IsPrefix(Names(heap[id].attributes), Names(r.heap[id].attributes))
                            /\ \A x \in DOMAIN heap :
                                  /\ r.heap[x].children = heap[x].children
                                  /\ x # id => r.heap[x].attributes = heap[x].attributes
          /\ \A i \in DOMAIN svg :
                /\ IsElement(svg, i) =>
                     \A c \in SetPropsCalls :
                        LET r == set_props(props, svg, i, c.dicts, c.attrs)
                        IN  \A d \in DOMAIN props : IsPrefix(Names(props[d]), Names(r.props[d]))
                /\ IsGroup(svg, i) =>
                     \A e \in DOMAIN svg :
                        LET r == SVG_Group_add(svg, i, e)
                        IN  \A j \in DOMAIN svg :
                               IsPrefix(svg[j].components, r.svg[j].components))

\* a group that was given two components and then a second property
C24_Witness ==
    /\ last.op = "set_props"
    /\ last.status = "ok"
    /\ svg[last.target].components = <<2, 3>>
    /\ Names(props[svg[last.target].properties]) = <<S(<<"x">>), S(<<"z">>)>>

\* What merging entries one after the other, up to the first that the name
\* rule or the value rule rejects, leaves: [attributes, status]
RECURSIVE MergedUntilRejected(_, _)
MergedUntilRejected(attributes, entries) ==
    IF entries = <<>> THEN [attributes |-> attributes, status |-> "ok"]
    ELSE IF NameRule(entries[1].k) # "ok"
    THEN [attributes |-> attributes, status |-> NameRule(entries[1].k)]
    ELSE IF ValueRule(entries[1].v) # "ok"
    THEN [attributes |-> attributes, status |-> ValueRule(entries[1].v)]
    ELSE MergedUntilRejected(Put(attributes, entries[1]), Tail(entries))

OnlyMappings(c) == \A k \in 1..Len(c.dicts) : c.dicts[k].t \in {"dict", "NoneType"}

\* C25: an add_attrs call that fails has raised an error to its caller and
\* leaves the attribute map with the entries before the failing one merged
\* into it, those of the mappings in argument order and then the named values,
\* and without the failing entry and those after it; the name and the child
\* list of the node are as they were.
C25_FailureKeepsEarlierEntries ==
    \A c \in AttrCalls :
       OnlyMappings(c) =>
         LET r == add_attrs(heap, 1, c.dicts, c.attrs)
         IN  r.status # "ok" =>
               /\ r.status \in {"TypeError", "ValueError"}
               /\ r.heap[1].attributes
                     = MergedUntilRejected(heap[1].attributes, Entries(c)).attributes
               /\ r.heap[1].name = heap[1].name
               /\ r.heap[1].children = heap[1].children

\* C26: an export() or str() that returns leaves the wrappers and their
\* property maps as they were and gives the entity that the properties and
\* components of the wrapper, as they are when the call is made, export to;
\* when the call before it was an export() or str() of the same wrapper, the
\* two entities have the same text, and two str() the same string.
C26_ExportOnDemand ==
    [][(last'.op \in {"export", "__str__"} /\ last'.status = "ok")
         => /\ svg' = svg
            /\ props' = props
            /\ Exported(heap', last'.ret, props, svg, last'.target)
            /\ (last.op \in {"export", "__str__"} /\ last.status = "ok"
                  /\ last.target = last'.target)
               => /\ \A l \in 0..MaxLevel : \A u \in 0..MaxIndent :
                        format_string(heap', last'.ret, Spacer(l, u)).str
                           = format_string(heap, last.ret, Spacer(l, u)).str
                  /\ (last.op = "__str__" /\ last'.op = "__str__") => last'.out = last.out]_vars

\* SVG_Group({"x": "v"}) was given a component and x=0.5, and exports with
\* both
C26_Witness ==
    /\ last.op = "export"
    /\ last.status = "ok"
    /\ svg[last.target].cls = "SVG_Group"
    /\ props[svg[last.target].properties] = <<Item(S(<<"x">>), VFloat(5))>>
    /\ svg[last.target].properties > Len(DefaultProps)
    /\ heap[last.ret].attributes = <<Item(<<"x">>, VFloat(5))>>
    /\ Len(heap[last.ret].children) = 1

\* Every node of h has a name of the name grammar and attributes whose names
\* are of the grammar and whose values the value rule accepts, and every
\* comment has a content that is an int, a float, or a string that is not
\* empty and holds no '--'
StructurallyValid(h) ==
    \A id \in DOMAIN h :
       /\ h[id].cls = "TAT_Node" =>
             /\ NameRule(S(h[id].name)) = "ok"
             /\ \A i \in 1..Len(h[id].attributes) :
                   /\ NameRule(S(h[id].attributes[i].k)) = "ok"
                   /\ ValueRule(h[id].attributes[i].v) = "ok"
       /\ h[id].cls = "TAT_Comment" =>
             \/ h[id].content.t \in {"int", "float"}
             \/ /\ h[id].content.t = "str"
                /\ h[id].content.s # <<>>
                /\ ~HasDoubleHyphen(h[id].content.s)

\* C27: in every state reached by TAT_Node and TAT_Comment constructions and
\* add_attrs and add_nodes calls, failed ones included, every node and every
\* comment is structurally valid; and whatever add_attrs call with several
\* entries is made next, successful or failing, leaves them so.
C27_StructuralValidity ==
    /\ StructurallyValid(heap)
    /\ \A c \in AttrCalls :
          Len(Entries(c)) >= 2 =>
            StructurallyValid(add_attrs(heap, 1, c.dicts, c.attrs).heap)

\* a failed add_attrs has left the node without attributes, and a comment
\* that ends in one hyphen was made and added to the node
C27_Witness ==
    /\ last.op = "add_nodes"
    /\ last.status = "ok"
    /\ heap[1].children = <<2>>
    /\ heap[2].cls = "TAT_Comment"
    /\ heap[2].content = S(<<"a", "-">>)
    /\ add_attrs(heap, 1, <<DictArg(<<Item(S(<<"x">>), S(<<"v">>)), Item(S(<<"w">>), S(<<"<">>))>>)>>,
                 <<>>).heap[1].attributes = <<Item(<<"x">>, S(<<"v">>))>>

\* C28: format_string on any entity of a tree built by constructions and
\* add_nodes calls, and export on any wrapper built by constructions and add
\* calls, comes to an end and returns: no call recurses without bound.
C28_RenderingTerminates ==
    last.op \in {"format_string", "export", "__str__"} => last.status # "RecursionError"

\* The entities of an argument list that come, left to right and lists
\* opened, before its first argument that is neither an entity, a list nor
\* None (ids), and whether there is such an argument (hit)
RECURSIVE Preceding(_)
Preceding(tags) ==
    IF tags = <<>> THEN [ids |-> <<>>, hit |-> FALSE]
    ELSE LET rest == Preceding(Tail(tags))
         IN  CASE tags[1].k = "entity" -> [ids |-> <<tags[1].id>> \o rest.ids, hit |-> rest.hit]
               [] tags[1].k = "None" -> rest
               [] tags[1].k = "list" ->
                    LET inner == Preceding(tags[1].items)
                    IN  IF inner.hit THEN inner
                        ELSE [ids |-> inner.ids \o rest.ids, hit |-> rest.hit]
               [] OTHER -> [ids |-> <<>>, hit |-> TRUE]

\* C29: an add_nodes call that raises TypeError on an argument has appended
\* the entities that precede that argument in left-to-right flattened order,
\* and nothing else: the offending argument and what follows it are not
\* appended, and the attributes of the node and all other entities are as
\* they were.
C29_TypeErrorKeepsPrecedingEntities ==
    /\ (last.op = "add_nodes" /\ last.status # "ok") => last.status = "TypeError"
    /\ \A id \in DOMAIN heap :
          IsNode(heap, id) =>
            \A tags \in SequenceCalls(heap) :
               LET r == add_nodes(heap, id, tags)
               IN  /\ r.status = "TypeError" <=> Preceding(tags).hit
                   /\ r.status = "TypeError" =>
                         /\ r.heap[id].children = heap[id].children \o Preceding(tags).ids
                         /\ r.heap[id].attributes = heap[id].attributes
                         /\ \A x \in DOMAIN heap : x # id => r.heap[x] = heap[x]

\* r.add_nodes(n, "foreign", n) on a node with an attribute has raised
\* TypeError and left n as the only child of r
C29_Witness ==
    /\ last.op = "add_nodes"
    /\ last.status = "TypeError"
    /\ last.target = 1
    /\ heap[1].children = <<2>>
    /\ heap[1].attributes # <<>>

\* C30: whatever add_attrs call is made, every name the node has keeps its
\* position in the attribute map, with the value of the last entry of the
\* call that names it or else the value it had; the names the call adds come
\* after them; and the node renders its attributes in that order.
C30_OverwriteKeepsPosition ==
    \A c \in AttrCalls :
       LET r == add_attrs(heap, 1, c.dicts, c.attrs)
           before == heap[1].attributes
           after == r.heap[1].attributes
       IN  /\ Len(after) >= Len(before)
           /\ \A i \in 1..Len(before) : after[i].k = before[i].k
           /\ r.status = "ok" =>
                 /\ \A i \in 1..Len(before) :
                       <<after[i].v>> = IF LastWritten(Entries(c), before[i].k) # <<>>
                                        THEN LastWritten(Entries(c), before[i].k)
                                        ELSE <<before[i].v>>
                 /\ format_string(r.heap, 1, Spacer(0, 1)).str
                       = <<"<">> \o heap[1].name \o PairsText(after) \o <<" ", "/", ">">>

\* x and then w were written; writing x again, as 0.5, leaves x in front of w
C30_Witness ==
    /\ last.op = "add_attrs"
    /\ last.status = "ok"
    /\ heap[1].name = <<"e">>
    /\ heap[1].attributes = <<Item(<<"x">>, S(<<"v">>)), Item(<<"w">>, VInt(-3))>>
    /\ format_string(add_attrs(heap, 1, <<>>, <<Item(S(<<"x">>), VFloat(5))>>).heap, 1,
                     Spacer(0, 1)).str
          = <<"<", "e", " ", "x", "=", "\"", "0", ".", "5", "\"", " ",
              "w", "=", "\"", "-", "3", "\"", " ", "/", ">">>

====
